---- MODULE Spec2Model ----
(***************************************************************************)
(* State-space engine of the sliding-block puzzle tooling:                 *)
(*   simpleShortestMoves.py  BFS over legal moves (find_shortest_target_   *)
(*                           path)                                         *)
(*   potentialMoves.py       move generator and counting BFS               *)
(*   shortestMoves.py        hyper-/super-node enumeration and the BFS     *)
(*                           run from every super-node                     *)
(*   March3/generate_states.py  the same pipeline with renamed dominoes  *)
(*                           and a move generator for the dominoes only    *)
(* A piece is a record [label, piece_type, row, col] (the Python dict);    *)
(* a board state is a sequence of pieces (the Python list).                *)
(***************************************************************************)
EXTENDS Integers, Sequences, FiniteSets, TLC

\* Bounds of the model: grids of at most MaxCells cells, at most MaxPieces
\* configured pieces.
MaxCells == 6
MaxPieces == 2

VARIABLES
    puzzle_data,           \* [rows, cols, pieces, target]: the loaded configuration
    pc,                    \* position of the running function
    queue,                 \* BFS frontier (deque), oldest entry first
    visited,               \* BFS visited set of board_to_tuple keys
    current_pieces,        \* local of the BFS loop: the state last dequeued
    move_history,          \* local of the BFS loop: its path
    possible_moves,        \* local of the BFS loop: the move_dict last computed
    ret,                   \* value returned
    total_configurations,  \* potentialMoves.BFS counter
    hyper_states,          \* result of generate_hypernodes
    hyper_state,           \* the hyper-state handed to generate_supernodes
    super_states,          \* result of generate_supernodes
    initial_pieces,        \* the state handed to find_shortest_target_path_from_state
    valid_end_states,      \* result list of potentialMoves.find_target_piece_paths
    image_states,          \* the board states simulate_shortest_path_and_save_images draws
    heap,                  \* the piece dicts by identity: heap[id] is the dict's content
    args,                  \* arguments of the call of a comparison or enumeration function
    result,                \* value the call returned
    puzzle_board,          \* fields of the PuzzleBoard instance of earlyWorkings/board.py
    puzzle_app,            \* fields of the PuzzleApp instance of workingBoard/combined.py
    tk_after               \* callbacks scheduled with root.after and not yet run

\* The variables of shortestMoves.main.
genVars == <<hyper_states, hyper_state, super_states, initial_pieces>>

\* The variables only the path listing, the replay and the search over piece
\* references use.
auxVars == <<valid_end_states, image_states, heap>>

\* The variables of the comparison functions, of the board class and of the
\* board editor.
toolVars == <<args, result, puzzle_board, puzzle_app, tk_after>>

\* The variables of the searches and generators, pc left out.
searchVars == <<puzzle_data, queue, visited, current_pieces, move_history,
                possible_moves, ret, total_configurations, genVars, auxVars>>

vars == <<puzzle_data, pc, queue, visited, current_pieces, move_history,
          possible_moves, ret, total_configurations, genVars, auxVars, toolVars>>

\* Value of a local that has not been assigned yet.
NoMoves(pieces) == [l \in {pieces[i].label : i \in 1..Len(pieces)} |-> <<>>]

----------------------------------------------------------------------------
(* Labels.  Python compares labels as strings; LabelOrder lists every label *)
(* of the model in that order.                                              *)

LabelOrder == <<"A", "B", "Block1", "Block2", "Block3", "Block4", "H",
                "H1x2_0", "H1x2_1", "H1x2_2", "H1x2_3",
                "H2x1_0", "H2x1_1", "H2x1_2", "H2x1_3", "T", "V">>

LabelRank(l) == CHOOSE i \in 1..Len(LabelOrder) : LabelOrder[i] = l

\* Labels given to the configured pieces, in list order.
PieceLabels == <<"T", "H", "V", "A", "B">>

\* A target label that references no piece.
MissingLabel == "Z"

----------------------------------------------------------------------------
(* Helpers shared by the three scripts.                                     *)

MOVES == << [direction |-> "up",    dr |-> -1, dc |-> 0],
            [direction |-> "down",  dr |-> 1,  dc |-> 0],
            [direction |-> "left",  dr |-> 0,  dc |-> -1],
            [direction |-> "right", dr |-> 0,  dc |-> 1] >>

\* (label, row, col) tuples compared as Python compares tuples.
TupleLess(a, b) ==
    \/ LabelRank(a[1]) < LabelRank(b[1])
    \/ a[1] = b[1] /\ a[2] < b[2]
    \/ a[1] = b[1] /\ a[2] = b[2] /\ a[3] < b[3]

RECURSIVE InsertSorted(_, _)
InsertSorted(t, s) ==
    IF s = <<>> THEN <<t>>
    ELSE IF TupleLess(t, Head(s)) THEN <<t>> \o s
    ELSE <<Head(s)>> \o InsertSorted(t, Tail(s))

\* sorted() left out: the tuples stay in the order of the list.
sorted_Unsorted(s) == s

RECURSIVE sorted(_)
sorted(s) == IF s = <<>> THEN <<>> ELSE InsertSorted(Head(s), sorted(Tail(s)))

\* The key without the labels (one constant in their place).
board_to_tuple_NoLabel(pieces) ==
    sorted([i \in 1..Len(pieces) |-> <<LabelOrder[1], pieces[i].row, pieces[i].col>>])

board_to_tuple(pieces) ==
    sorted([i \in 1..Len(pieces) |-> <<pieces[i].label, pieces[i].row, pieces[i].col>>])

\* next(p for p in pieces if p["label"] == target_label): index of the first
\* piece with that label, 0 when there is none (StopIteration).
TargetIndex(pieces, target_label) ==
    IF \E i \in 1..Len(pieces) : pieces[i].label = target_label
    THEN CHOOSE i \in 1..Len(pieces) :
            /\ pieces[i].label = target_label
            /\ \A j \in 1..(i-1) : pieces[j].label # target_label
    ELSE 0

\* The new anchor given to every piece, whatever its label.
MovePiece_AllPieces(pieces, label, new_row, new_col) ==
    [i \in 1..Len(pieces) |-> [pieces[i] EXCEPT !.row = new_row, !.col = new_col]]

\* new_pieces = [p.copy() ...]; every piece carrying the label gets the new anchor.
MovePiece(pieces, label, new_row, new_col) ==
    [i \in 1..Len(pieces) |->
        IF pieces[i].label = label
        THEN [pieces[i] EXCEPT !.row = new_row, !.col = new_col]
        ELSE pieces[i]]

\* The (piece, move) pairs in the order of the two nested for-loops.
RECURSIVE MoveList(_, _, _)
MoveList(pieces, moves, i) ==
    IF i > Len(pieces) THEN <<>>
    ELSE [k \in 1..Len(moves[pieces[i].label]) |->
             [label |-> pieces[i].label, move |-> moves[pieces[i].label][k]]]
         \o MoveList(pieces, moves, i + 1)

----------------------------------------------------------------------------
(* Configurations the scripts are run on.                                   *)

Grids == {g \in (1..MaxCells) \X (1..MaxCells) : g[1] * g[2] <= MaxCells}

Dims(piece_type) ==
    CASE piece_type = "1x1" -> <<1, 1>>
      [] piece_type = "1x2" -> <<1, 2>>
      [] piece_type = "2x1" -> <<2, 1>>
      [] piece_type = "2x2" -> <<2, 2>>

\* Cells covered by a piece.
Footprint(p) ==
    {<<p.row + r, p.col + c>> : r \in 0..(Dims(p.piece_type)[1] - 1),
                                c \in 0..(Dims(p.piece_type)[2] - 1)}

GridCells(rows, cols) == (0..(rows - 1)) \X (0..(cols - 1))

\* The BoardState invariant: in bounds and pairwise disjoint.
BoardInvariant(pieces, rows, cols) ==
    /\ \A i \in 1..Len(pieces) : Footprint(pieces[i]) \subseteq GridCells(rows, cols)
    /\ \A i, j \in 1..Len(pieces) :
          i # j => Footprint(pieces[i]) \cap Footprint(pieces[j]) = {}

PiecesAt(label, types, rows, cols) ==
    {[label |-> label, piece_type |-> t, row |-> a[1], col |-> a[2]] :
        t \in types, a \in GridCells(rows, cols)}

\* Piece lists of length n, labelled PieceLabels[1..n], satisfying the invariant.
RECURSIVE ValidPieceLists(_, _, _, _)
ValidPieceLists(rows, cols, types, n) ==
    IF n = 0 THEN {<<>>}
    ELSE UNION { {Append(s, p) : p \in {q \in PiecesAt(PieceLabels[n], types, rows, cols) :
                                          BoardInvariant(Append(s, q), rows, cols)}} :
                 s \in ValidPieceLists(rows, cols, types, n - 1) }

LabelsOf(pieces) == {pieces[i].label : i \in 1..Len(pieces)}

Configs(types) ==
    UNION { UNION { {[rows |-> g[1], cols |-> g[2], pieces |-> ps, target |-> t] :
                        ps \in ValidPieceLists(g[1], g[2], types, n),
                        t \in {PieceLabels[k] : k \in 1..n} \cup {MissingLabel}} :
                    n \in 1..MaxPieces } :
            g \in Grids }

----------------------------------------------------------------------------
(* simpleShortestMoves.py                                                   *)

SsmTypes == {"1x1", "1x2", "2x1", "2x2"}

ssm_get_piece_dimensions(piece) ==
    CASE piece.piece_type = "1x1" -> <<1, 1>>
      [] piece.piece_type = "1x2" -> <<1, 2>>
      [] piece.piece_type = "2x1" -> <<2, 1>>
      [] piece.piece_type = "2x2" -> <<2, 2>>

\* board[(row + r, col + c)] = label, a later piece overwriting an earlier one.
ssm_create_board_representation(pieces) ==
    LET covers(i, cell) ==
            LET d == ssm_get_piece_dimensions(pieces[i]) IN
            /\ pieces[i].row <= cell[1] /\ cell[1] < pieces[i].row + d[1]
            /\ pieces[i].col <= cell[2] /\ cell[2] < pieces[i].col + d[2]
        cellsOf(i) ==
            LET d == ssm_get_piece_dimensions(pieces[i]) IN
            {<<pieces[i].row + r, pieces[i].col + c>> : r \in 0..(d[1] - 1), c \in 0..(d[2] - 1)}
        keys == UNION {cellsOf(i) : i \in 1..Len(pieces)}
    IN [cell \in keys |->
           pieces[CHOOSE i \in 1..Len(pieces) :
                     /\ covers(i, cell)
                     /\ \A j \in (i + 1)..Len(pieces) : ~covers(j, cell)].label]

ssm_is_valid_move(piece, new_row, new_col, board, rows, cols) ==
    LET d == ssm_get_piece_dimensions(piece)
        height == d[1]
        width == d[2]
        new_cells == {<<new_row + r, new_col + c>> : r \in 0..(height - 1), c \in 0..(width - 1)}
    IN IF new_row < 0 \/ new_col < 0 \/ new_row + height > rows \/ new_col + width > cols
       THEN FALSE
       ELSE \A cell \in new_cells : ~(cell \in DOMAIN board /\ board[cell] # piece.label)

\* The list move_dict[label] is rebuilt for every piece, so a label keeps the
\* moves of the last piece that carries it.
ssm_get_all_possible_moves(pieces, rows, cols) ==
    LET board == ssm_create_board_representation(pieces)
        movesOf(piece) ==
            LET ok == [k \in 1..Len(MOVES) |->
                          ssm_is_valid_move(piece, piece.row + MOVES[k].dr, piece.col + MOVES[k].dc,
                                            board, rows, cols)]
                pick[k \in 0..Len(MOVES)] ==
                    IF k = 0 THEN <<>>
                    ELSE IF ok[k]
                         THEN Append(pick[k - 1], <<MOVES[k].direction, piece.row + MOVES[k].dr,
                                                    piece.col + MOVES[k].dc>>)
                         ELSE pick[k - 1]
            IN pick[Len(MOVES)]
    IN [l \in LabelsOf(pieces) |->
           movesOf(pieces[CHOOSE i \in 1..Len(pieces) :
                             /\ pieces[i].label = l
                             /\ \A j \in (i + 1)..Len(pieces) : pieces[j].label # l])]

\* queue.popleft(): <<entry, rest of the queue>>.
ssm_popleft_FromRight(q) == <<q[Len(q)], SubSeq(q, 1, Len(q) - 1)>>
ssm_popleft_NoPop(q) == <<Head(q), q>>
ssm_popleft(q) == <<Head(q), Tail(q)>>

\* The goal test of the loop: target at the bottom-left, adjusted for its height.
ssm_goal_test_NoHeight(target_piece, rows) ==
    target_piece.row = rows - 1 /\ target_piece.col = 0
ssm_goal_test(target_piece, rows) ==
    target_piece.row = rows - ssm_get_piece_dimensions(target_piece)[1] /\ target_piece.col = 0

\* Lines 122-129 without visited.add of line 128.
ssm_visit_NoMark(acc, pieces, history, c) ==
    LET new_pieces == MovePiece(pieces, c.label, c.move[2], c.move[3])
        new_state == board_to_tuple(new_pieces)
    IN IF new_state \notin acc.visited
       THEN [visited |-> acc.visited,
             queue |-> Append(acc.queue,
                              [pieces |-> new_pieces,
                               move_history |-> Append(history, <<c.label, c.move[1]>>)])]
       ELSE acc

\* Lines 122-129 with the successor put at the front of the queue.
ssm_visit_AppendLeft(acc, pieces, history, c) ==
    LET new_pieces == MovePiece(pieces, c.label, c.move[2], c.move[3])
        new_state == board_to_tuple(new_pieces)
    IN IF new_state \notin acc.visited
       THEN [visited |-> acc.visited \cup {new_state},
             queue |-> <<[pieces |-> new_pieces,
                          move_history |-> Append(history, <<c.label, c.move[1]>>)]>>
                       \o acc.queue]
       ELSE acc

\* Lines 122-129, one pass of the inner loop body for the move c of the piece
\* labelled c.label: an unseen successor is marked visited and appended to the
\* queue with the extended history.  acc is [visited, queue].
ssm_visit(acc, pieces, history, c) ==
    LET new_pieces == MovePiece(pieces, c.label, c.move[2], c.move[3])
        new_state == board_to_tuple(new_pieces)
    IN IF new_state \notin acc.visited
       THEN [visited |-> acc.visited \cup {new_state},
             queue |-> Append(acc.queue,
                              [pieces |-> new_pieces,
                               move_history |-> Append(history, <<c.label, c.move[1]>>)])]
       ELSE acc

\* Lines 120-129: the two nested for-loops, over cands[k..] in order.
RECURSIVE ssm_expand(_, _, _, _, _)
ssm_expand(cands, k, pieces, history, acc) ==
    IF k > Len(cands) THEN acc
    ELSE ssm_expand(cands, k + 1, pieces, history,
                    CHOOSE r \in {ssm_visit(a, pieces, history, cands[k]) : a \in {acc}} : TRUE)

\* Line 109: the initial state enters the queue with an empty move history.
ssm_initial_entry(pieces) == [pieces |-> pieces, move_history |-> <<>>]

\* The configurations find_shortest_target_path is run on.
SsmConfigs == Configs(SsmTypes)

\* Before load_puzzle_config has run.
NoConfig == [rows |-> 0, cols |-> 0, pieces |-> <<>>, target |-> MissingLabel]

Init ==
    /\ puzzle_data = NoConfig
    /\ pc = "main"
    /\ queue = <<>>
    /\ visited = {}
    /\ current_pieces = <<>>
    /\ move_history = <<>>
    /\ possible_moves = NoMoves(<<>>)
    /\ ret = <<>>
    /\ total_configurations = 0
    /\ hyper_states = <<>>
    /\ hyper_state = <<>>
    /\ super_states = <<>>
    /\ initial_pieces = <<>>
    /\ valid_end_states = <<>>
    /\ image_states = <<>>
    /\ heap = <<>>
    /\ args = <<>>
    /\ result = <<>>
    /\ puzzle_board = <<>>
    /\ puzzle_app = <<>>
    /\ tk_after = <<>>

\* main() loads a configuration and calls find_shortest_target_path, which
\* seeds the queue and the visited set (lines 103-110).
SsmCall ==
    /\ pc = "main"
    /\ puzzle_data' \in SsmConfigs
    /\ queue' = <<ssm_initial_entry(puzzle_data'.pieces)>>
    /\ visited' = {board_to_tuple(puzzle_data'.pieces)}
    /\ pc' = "loop"
    /\ UNCHANGED <<toolVars, auxVars, current_pieces, move_history, possible_moves, ret,
                   total_configurations, genVars>>

\* Line 114: the target label is on no piece of the dequeued state.
SsmRaise ==
    /\ pc = "loop"
    /\ queue # <<>>
    /\ LET e == ssm_popleft(queue)[1] IN
       /\ TargetIndex(e.pieces, puzzle_data.target) = 0
       /\ current_pieces' = e.pieces
       /\ move_history' = e.move_history
    /\ queue' = ssm_popleft(queue)[2]
    /\ pc' = "raise_StopIteration"
    /\ UNCHANGED <<toolVars, auxVars, puzzle_data, visited, possible_moves, ret, total_configurations,
                   genVars>>

\* Lines 113-118: the dequeued state satisfies the goal test.
SsmReturnPath ==
    /\ pc = "loop"
    /\ queue # <<>>
    /\ LET e == ssm_popleft(queue)[1]
           t == TargetIndex(e.pieces, puzzle_data.target)
       IN /\ t # 0
          /\ ssm_goal_test(e.pieces[t], puzzle_data.rows)
          /\ current_pieces' = e.pieces
          /\ move_history' = e.move_history
          /\ ret' = e.move_history
    /\ queue' = ssm_popleft(queue)[2]
    /\ pc' = "return_path"
    /\ UNCHANGED <<toolVars, auxVars, puzzle_data, visited, possible_moves, total_configurations,
                   genVars>>

\* Lines 113-129: the dequeued state is expanded.
SsmExpand ==
    /\ pc = "loop"
    /\ queue # <<>>
    /\ \E e \in {ssm_popleft(queue)[1]} :
       \E pm \in {ssm_get_all_possible_moves(e.pieces, puzzle_data.rows, puzzle_data.cols)} :
       \E cands \in {MoveList(e.pieces, pm, 1)} :
       \E r \in {ssm_expand(cands, 1, e.pieces, e.move_history,
                             [visited |-> visited, queue |-> ssm_popleft(queue)[2]])} :
          /\ TargetIndex(e.pieces, puzzle_data.target) # 0
          /\ ~ssm_goal_test(e.pieces[TargetIndex(e.pieces, puzzle_data.target)], puzzle_data.rows)
          /\ current_pieces' = e.pieces
          /\ move_history' = e.move_history
          /\ possible_moves' = pm
          /\ visited' = r.visited
          /\ queue' = r.queue
    /\ UNCHANGED <<toolVars, auxVars, puzzle_data, pc, ret, total_configurations,
                   genVars>>

\* Line 130: the frontier is empty.
SsmReturnEmpty ==
    /\ pc = "loop"
    /\ queue = <<>>
    /\ pc' = "return_empty"
    /\ ret' = <<>>
    /\ UNCHANGED <<toolVars, auxVars, puzzle_data, queue, visited, current_pieces, move_history,
                   possible_moves, total_configurations, genVars>>

\* Configurations in which the last piece carries the label of the first one;
\* load_puzzle_config (lines 29-41) accepts them.
SsmDuplicateConfigs ==
    UNION { UNION { {[rows |-> g[1], cols |-> g[2],
                      pieces |-> [ps EXCEPT ![n] = [@ EXCEPT !.label = ps[1].label]],
                      target |-> t] :
                        ps \in ValidPieceLists(g[1], g[2], SsmTypes, n),
                        t \in {PieceLabels[k] : k \in 1..(n - 1)} \cup {MissingLabel}} :
                    n \in 2..MaxPieces } :
            g \in Grids }

\* SsmCall on a configuration with a repeated label.
SsmCallDuplicate ==
    /\ pc = "main"
    /\ puzzle_data' \in SsmDuplicateConfigs
    /\ queue' = <<ssm_initial_entry(puzzle_data'.pieces)>>
    /\ visited' = {board_to_tuple(puzzle_data'.pieces)}
    /\ pc' = "loop"
    /\ UNCHANGED <<toolVars, auxVars, current_pieces, move_history, possible_moves, ret,
                   total_configurations, genVars>>

SsmDuplicateNext ==
    SsmCallDuplicate \/ SsmRaise \/ SsmReturnPath \/ SsmExpand \/ SsmReturnEmpty

SpecSimpleDuplicate == Init /\ [][SsmDuplicateNext]_vars

SsmNext == SsmCall \/ SsmRaise \/ SsmReturnPath \/ SsmExpand \/ SsmReturnEmpty

SpecSimple == Init /\ [][SsmNext]_vars

\* The loop runs to completion: Python executes the function without preemption.
FairSpecSimple == SpecSimple /\ WF_vars(SsmNext)

\* simulate_shortest_path_and_save_images, lines 189-219.

\* MOVES[direction] of line 206.
ssm_moves_entry(direction) ==
    MOVES[CHOOSE k \in 1..Len(MOVES) : MOVES[k].direction = direction]

\* Lines 205-211 with dr and dc exchanged.
ssm_simulate_move_Exchanged(pieces, move) ==
    LET i == TargetIndex(pieces, move[1])
        m == ssm_moves_entry(move[2])
    IN IF i = 0 THEN pieces
       ELSE [pieces EXCEPT ![i] = [@ EXCEPT !.row = @ + m.dc, !.col = @ + m.dr]]

\* Lines 205-211: the first piece carrying the label of the move is shifted by
\* MOVES[direction]; the loop breaks after it.
ssm_simulate_move(pieces, move) ==
    LET i == TargetIndex(pieces, move[1])
        m == ssm_moves_entry(move[2])
    IN IF i = 0 THEN pieces
       ELSE [pieces EXCEPT ![i] = [@ EXCEPT !.row = @ + m.dr, !.col = @ + m.dc]]

\* Lines 197-217: the states drawn, move_0 first; drawn is the list so far and
\* its last entry is current_pieces.
RECURSIVE ssm_simulate(_, _, _)
ssm_simulate(drawn, shortest_path, step) ==
    IF step > Len(shortest_path) THEN drawn
    ELSE ssm_simulate(Append(drawn, ssm_simulate_move(drawn[Len(drawn)], shortest_path[step])),
                      shortest_path, step + 1)

\* main(), lines 230-238: a non-empty path is replayed from the configured
\* pieces.
SsmSimulate ==
    /\ pc = "return_path"
    /\ ret # <<>>
    /\ image_states' = ssm_simulate(<<puzzle_data.pieces>>, ret, 1)
    /\ current_pieces' = image_states'[Len(image_states')]
    /\ pc' = "simulated"
    /\ UNCHANGED <<toolVars, puzzle_data, queue, visited, move_history, possible_moves, ret,
                   total_configurations, genVars, valid_end_states, heap>>

SsmMainNext == SsmNext \/ SsmSimulate

SpecSimulate == Init /\ [][SsmMainNext]_vars

----------------------------------------------------------------------------
(* potentialMoves.py                                                        *)

PmTypes == {"1x1", "1x2", "2x1"}

pm_get_piece_dimensions(piece) ==
    CASE piece.piece_type = "1x1" -> <<1, 1>>
      [] piece.piece_type = "1x2" -> <<1, 2>>
      [] piece.piece_type = "2x1" -> <<2, 1>>

\* board[(row + r, col + c)] = label, a later piece overwriting an earlier one.
pm_create_board_representation(pieces) ==
    LET covers(i, cell) ==
            LET d == pm_get_piece_dimensions(pieces[i]) IN
            /\ pieces[i].row <= cell[1] /\ cell[1] < pieces[i].row + d[1]
            /\ pieces[i].col <= cell[2] /\ cell[2] < pieces[i].col + d[2]
        cellsOf(i) ==
            LET d == pm_get_piece_dimensions(pieces[i]) IN
            {<<pieces[i].row + r, pieces[i].col + c>> : r \in 0..(d[1] - 1), c \in 0..(d[2] - 1)}
        keys == UNION {cellsOf(i) : i \in 1..Len(pieces)}
    IN [cell \in keys |->
           pieces[CHOOSE i \in 1..Len(pieces) :
                     /\ covers(i, cell)
                     /\ \A j \in (i + 1)..Len(pieces) : ~covers(j, cell)].label]

\* The boundary test lets the footprint end one cell past the last row or column.
pm_is_valid_move_OffByOne(piece, new_row, new_col, board, rows, cols) ==
    LET d == pm_get_piece_dimensions(piece)
        new_cells == {<<new_row + r, new_col + c>> : r \in 0..(d[1] - 1), c \in 0..(d[2] - 1)}
    IN IF new_row < 0 \/ new_col < 0 \/ new_row + d[1] > rows + 1 \/ new_col + d[2] > cols + 1
       THEN FALSE
       ELSE \A cell \in new_cells : ~(cell \in DOMAIN board /\ board[cell] # piece.label)

\* The collision test is left out.
pm_is_valid_move_NoCollision(piece, new_row, new_col, board, rows, cols) ==
    LET d == pm_get_piece_dimensions(piece)
    IN ~(new_row < 0 \/ new_col < 0 \/ new_row + d[1] > rows \/ new_col + d[2] > cols)

pm_is_valid_move(piece, new_row, new_col, board, rows, cols) ==
    LET d == pm_get_piece_dimensions(piece)
        height == d[1]
        width == d[2]
        new_cells == {<<new_row + r, new_col + c>> : r \in 0..(height - 1), c \in 0..(width - 1)}
    IN IF new_row < 0 \/ new_col < 0 \/ new_row + height > rows \/ new_col + width > cols
       THEN FALSE
       ELSE \A cell \in new_cells : ~(cell \in DOMAIN board /\ board[cell] # piece.label)

\* The list move_dict[label] is rebuilt for every piece, so a label keeps the
\* moves of the last piece that carries it.
pm_get_all_possible_moves(pieces, rows, cols) ==
    LET board == pm_create_board_representation(pieces)
        movesOf(piece) ==
            LET ok == [k \in 1..Len(MOVES) |->
                          pm_is_valid_move(piece, piece.row + MOVES[k].dr, piece.col + MOVES[k].dc,
                                           board, rows, cols)]
                pick[k \in 0..Len(MOVES)] ==
                    IF k = 0 THEN <<>>
                    ELSE IF ok[k]
                         THEN Append(pick[k - 1], <<MOVES[k].direction, piece.row + MOVES[k].dr,
                                                    piece.col + MOVES[k].dc>>)
                         ELSE pick[k - 1]
            IN pick[Len(MOVES)]
    IN [l \in LabelsOf(pieces) |->
           movesOf(pieces[CHOOSE i \in 1..Len(pieces) :
                             /\ pieces[i].label = l
                             /\ \A j \in (i + 1)..Len(pieces) : pieces[j].label # l])]

\* Lines 122-130, one pass of the inner loop body: an unseen successor is marked
\* visited and appended to the queue.  acc is [visited, queue].
pm_visit(acc, pieces, c) ==
    LET new_pieces == MovePiece(pieces, c.label, c.move[2], c.move[3])
        new_state == board_to_tuple(new_pieces)
    IN IF new_state \notin acc.visited
       THEN [visited |-> acc.visited \cup {new_state}, queue |-> Append(acc.queue, new_pieces)]
       ELSE acc

\* Lines 119-130 with the last (piece, move) pair left out.
RECURSIVE pm_expand_SkipLast(_, _, _, _)
pm_expand_SkipLast(cands, k, pieces, acc) ==
    IF k >= Len(cands) THEN acc
    ELSE pm_expand_SkipLast(cands, k + 1, pieces,
                   CHOOSE r \in {pm_visit(a, pieces, cands[k]) : a \in {acc}} : TRUE)

\* Lines 119-130: the two nested for-loops, over cands[k..] in order.
RECURSIVE pm_expand(_, _, _, _)
pm_expand(cands, k, pieces, acc) ==
    IF k > Len(cands) THEN acc
    ELSE pm_expand(cands, k + 1, pieces,
                   CHOOSE r \in {pm_visit(a, pieces, cands[k]) : a \in {acc}} : TRUE)

\* The configurations BFS is run on.
PmConfigs == Configs(PmTypes)

\* main() loads a configuration and calls BFS, which seeds the queue and the
\* visited set (lines 100-110).
PmCall ==
    /\ pc = "main"
    /\ puzzle_data' \in PmConfigs
    /\ queue' = <<puzzle_data'.pieces>>
    /\ visited' = {board_to_tuple(puzzle_data'.pieces)}
    /\ total_configurations' = 0
    /\ pc' = "loop"
    /\ UNCHANGED <<toolVars, auxVars, current_pieces, move_history, possible_moves, ret,
                   genVars>>

\* Lines 112-130: one iteration of the loop.
PmExpand ==
    /\ pc = "loop"
    /\ queue # <<>>
    /\ \E cur \in {Head(queue)} :
       \E pm \in {pm_get_all_possible_moves(cur, puzzle_data.rows, puzzle_data.cols)} :
       \E cands \in {MoveList(cur, pm, 1)} :
       \E r \in {pm_expand(cands, 1, cur, [visited |-> visited, queue |-> Tail(queue)])} :
          /\ current_pieces' = cur
          /\ possible_moves' = pm
          /\ visited' = r.visited
          /\ queue' = r.queue
    /\ total_configurations' = total_configurations + 1
    /\ UNCHANGED <<toolVars, auxVars, puzzle_data, pc, move_history, ret, genVars>>

\* Line 132: the frontier is empty.
PmReturn ==
    /\ pc = "loop"
    /\ queue = <<>>
    /\ pc' = "return_total"
    /\ ret' = total_configurations
    /\ UNCHANGED <<toolVars, auxVars, puzzle_data, queue, visited, current_pieces, move_history,
                   possible_moves, total_configurations, genVars>>

PmNext == PmCall \/ PmExpand \/ PmReturn

SpecPotential == Init /\ [][PmNext]_vars

\* find_target_piece_paths, lines 135-176.

\* Line 156: the target piece is anchored at the bottom-left cell.
ftp_goal_test(target_piece, rows) ==
    target_piece.row = rows - 1 /\ target_piece.col = 0

\* Lines 166-174, one pass of the inner loop body; acc is [visited, queue].
ftp_visit(acc, pieces, history, c) ==
    LET new_pieces == MovePiece(pieces, c.label, c.move[2], c.move[3])
        new_state == board_to_tuple(new_pieces)
    IN IF new_state \notin acc.visited
       THEN [visited |-> acc.visited \cup {new_state},
             queue |-> Append(acc.queue,
                              [pieces |-> new_pieces,
                               move_history |-> Append(history, <<c.label, c.move[1]>>)])]
       ELSE acc

\* Lines 163-174: the two nested for-loops, over cands[k..] in order.
RECURSIVE ftp_expand(_, _, _, _, _)
ftp_expand(cands, k, pieces, history, acc) ==
    IF k > Len(cands) THEN acc
    ELSE ftp_expand(cands, k + 1, pieces, history,
                    CHOOSE r \in {ftp_visit(a, pieces, history, cands[k]) : a \in {acc}} : TRUE)

\* main() loads a configuration and calls find_target_piece_paths, which seeds
\* the queue and the visited set (lines 137-147).
FtpCall ==
    /\ pc = "main"
    /\ puzzle_data' \in PmConfigs
    /\ queue' = <<[pieces |-> puzzle_data'.pieces, move_history |-> <<>>]>>
    /\ visited' = {board_to_tuple(puzzle_data'.pieces)}
    /\ valid_end_states' = <<>>
    /\ pc' = "loop"
    /\ UNCHANGED <<toolVars, current_pieces, move_history, possible_moves, ret,
                   total_configurations, genVars, image_states, heap>>

\* Line 153: the target label is on no piece of the dequeued state.
FtpRaise ==
    /\ pc = "loop"
    /\ queue # <<>>
    /\ TargetIndex(Head(queue).pieces, puzzle_data.target) = 0
    /\ current_pieces' = Head(queue).pieces
    /\ move_history' = Head(queue).move_history
    /\ queue' = Tail(queue)
    /\ pc' = "raise_StopIteration"
    /\ UNCHANGED <<toolVars, auxVars, puzzle_data, visited, possible_moves, ret,
                   total_configurations, genVars>>

\* Lines 149-158: the dequeued state is an end state; it is listed and not
\* expanded.
FtpCollect ==
    /\ pc = "loop"
    /\ queue # <<>>
    /\ LET e == Head(queue)
           t == TargetIndex(e.pieces, puzzle_data.target)
       IN /\ t # 0
          /\ ftp_goal_test(e.pieces[t], puzzle_data.rows)
          /\ current_pieces' = e.pieces
          /\ move_history' = e.move_history
          /\ valid_end_states' = Append(valid_end_states, e)
    /\ queue' = Tail(queue)
    /\ UNCHANGED <<toolVars, puzzle_data, pc, visited, possible_moves, ret,
                   total_configurations, genVars, image_states, heap>>

\* Lines 149-174: the dequeued state is expanded.
FtpExpand ==
    /\ pc = "loop"
    /\ queue # <<>>
    /\ \E e \in {Head(queue)} :
       \E pm \in {pm_get_all_possible_moves(e.pieces, puzzle_data.rows, puzzle_data.cols)} :
       \E cands \in {MoveList(e.pieces, pm, 1)} :
       \E r \in {ftp_expand(cands, 1, e.pieces, e.move_history,
                             [visited |-> visited, queue |-> Tail(queue)])} :
          /\ TargetIndex(e.pieces, puzzle_data.target) # 0
          /\ ~ftp_goal_test(e.pieces[TargetIndex(e.pieces, puzzle_data.target)], puzzle_data.rows)
          /\ current_pieces' = e.pieces
          /\ move_history' = e.move_history
          /\ possible_moves' = pm
          /\ visited' = r.visited
          /\ queue' = r.queue
    /\ UNCHANGED <<toolVars, auxVars, puzzle_data, pc, ret, total_configurations, genVars>>

\* Line 176: the frontier is empty.
FtpReturn ==
    /\ pc = "loop"
    /\ queue = <<>>
    /\ pc' = "return_valid_end_states"
    /\ ret' = valid_end_states
    /\ UNCHANGED <<toolVars, auxVars, puzzle_data, queue, visited, current_pieces, move_history,
                   possible_moves, total_configurations, genVars>>

FtpNext == FtpCall \/ FtpRaise \/ FtpCollect \/ FtpExpand \/ FtpReturn

SpecTargetPaths == Init /\ [][FtpNext]_vars

----------------------------------------------------------------------------
(* shortestMoves.py: hyper-node and super-node generation                   *)

SmTypes == {"1x1", "1x2", "2x1"}

\* Number of extra 1x1 blocks a super-node adds.
NumBlocks == 4

\* Bound on the inputs of the BFS of shortestMoves.py: Manhattan distance of
\* the target's anchor from the goal cell.
MaxGoalDistance == 2

sm_get_piece_dimensions(piece) ==
    CASE piece.piece_type = "1x1" -> <<1, 1>>
      [] piece.piece_type = "1x2" -> <<1, 2>>
      [] piece.piece_type = "2x1" -> <<2, 1>>

\* range(n) as a sequence.
Range(n) == [i \in 1..n |-> i - 1]

\* [f(a, b) for a in as for b in bs], given as the sequence of pairs <<a, b>>.
RECURSIVE Product(_, _)
Product(as, bs) ==
    IF as = <<>> THEN <<>>
    ELSE [k \in 1..Len(bs) |-> <<Head(as), bs[k]>>] \o Product(Tail(as), bs)

\* itertools.combinations(s, k): the k-element subsequences in lexicographic
\* order of their positions.
RECURSIVE combinations(_, _)
combinations(s, k) ==
    IF k = 0 THEN << <<>> >>
    ELSE IF Len(s) < k THEN <<>>
    ELSE LET with == combinations(Tail(s), k - 1)
         IN [i \in 1..Len(with) |-> <<Head(s)>> \o with[i]] \o combinations(Tail(s), k)

\* Filter of a list comprehension, keeping the order.
RECURSIVE SelectPieces(_, _)
SelectPieces(pieces, types) ==
    IF pieces = <<>> THEN <<>>
    ELSE IF Head(pieces).piece_type \in types
         THEN <<Head(pieces)>> \o SelectPieces(Tail(pieces), types)
         ELSE SelectPieces(Tail(pieces), types)

\* Line 137, with the last column of anchors left out.
sm_placements_h_Short(rows, cols) ==
    LET rc == Product(Range(rows), Range(cols - 2))
    IN [k \in 1..Len(rc) |-> << <<rc[k][1], rc[k][2]>>, <<rc[k][1], rc[k][2] + 1>> >>]

\* Line 137: the horizontal two-cell placements, row by row.
sm_placements_h(rows, cols) ==
    LET rc == Product(Range(rows), Range(cols - 1))
    IN [k \in 1..Len(rc) |-> << <<rc[k][1], rc[k][2]>>, <<rc[k][1], rc[k][2] + 1>> >>]

\* Line 138: the vertical two-cell placements, row by row.
sm_placements_v(rows, cols) ==
    LET rc == Product(Range(rows - 1), Range(cols))
    IN [k \in 1..Len(rc) |-> << <<rc[k][1], rc[k][2]>>, <<rc[k][1] + 1, rc[k][2]>> >>]

\* Lines 145-152: the chosen placements do not overlap each other.
RECURSIVE sm_placements_valid(_, _)
sm_placements_valid(placements, occupied) ==
    IF placements = <<>> THEN TRUE
    ELSE IF Head(placements)[1] \in occupied \/ Head(placements)[2] \in occupied
         THEN FALSE
         ELSE sm_placements_valid(Tail(placements),
                                  occupied \cup {Head(placements)[1], Head(placements)[2]})

\* Lines 157-171: zip(pieces, placements), each piece anchored at the first cell
\* of its placement.
sm_place(pieces, placements) ==
    [i \in 1..(IF Len(pieces) < Len(placements) THEN Len(pieces) ELSE Len(placements)) |->
        [pieces[i] EXCEPT !.row = placements[i][1][1], !.col = placements[i][1][2]]]

\* Lines 143-177 with a second append of the arrangement ahead of the seen test.
RECURSIVE sm_hyper_loop_AppendTwice(_, _, _, _, _, _)
sm_hyper_loop_AppendTwice(combs, k, mov_1x2, mov_2x1, fixed, acc) ==
    IF k > Len(combs) THEN acc
    ELSE LET comb_h == combs[k][1]
             comb_v == combs[k][2]
             state == sm_place(mov_1x2, comb_h) \o sm_place(mov_2x1, comb_v) \o fixed
             state_tuple == board_to_tuple(state)
         IN IF ~sm_placements_valid(comb_h \o comb_v, {})
            THEN sm_hyper_loop_AppendTwice(combs, k + 1, mov_1x2, mov_2x1, fixed, acc)
            ELSE IF state_tuple \notin acc.seen
            THEN sm_hyper_loop_AppendTwice(combs, k + 1, mov_1x2, mov_2x1, fixed,
                               [hyper_states |-> acc.hyper_states \o <<state, state>>,
                                seen |-> acc.seen \cup {state_tuple}])
            ELSE sm_hyper_loop_AppendTwice(combs, k + 1, mov_1x2, mov_2x1, fixed,
                               [hyper_states |-> Append(acc.hyper_states, state),
                                seen |-> acc.seen])

\* Lines 143-177: the double loop over the combinations; acc is
\* [hyper_states, seen].
RECURSIVE sm_hyper_loop(_, _, _, _, _, _)
sm_hyper_loop(combs, k, mov_1x2, mov_2x1, fixed, acc) ==
    IF k > Len(combs) THEN acc
    ELSE LET comb_h == combs[k][1]
             comb_v == combs[k][2]
             state == sm_place(mov_1x2, comb_h) \o sm_place(mov_2x1, comb_v) \o fixed
             state_tuple == board_to_tuple(state)
         IN IF ~sm_placements_valid(comb_h \o comb_v, {})
            THEN sm_hyper_loop(combs, k + 1, mov_1x2, mov_2x1, fixed, acc)
            ELSE IF state_tuple \notin acc.seen
            THEN sm_hyper_loop(combs, k + 1, mov_1x2, mov_2x1, fixed,
                               [hyper_states |-> Append(acc.hyper_states, state),
                                seen |-> acc.seen \cup {state_tuple}])
            ELSE sm_hyper_loop(combs, k + 1, mov_1x2, mov_2x1, fixed, acc)

sm_generate_hypernodes(data) ==
    LET movable == SelectPieces(data.pieces, {"1x2", "2x1"})
        fixed == SelectPieces(data.pieces, SmTypes \ {"1x2", "2x1"})
        mov_1x2 == SelectPieces(movable, {"1x2"})
        mov_2x1 == SelectPieces(movable, {"2x1"})
        combs == Product(combinations(sm_placements_h(data.rows, data.cols), Len(mov_1x2)),
                         combinations(sm_placements_v(data.rows, data.cols), Len(mov_2x1)))
    IN sm_hyper_loop(combs, 1, mov_1x2, mov_2x1, fixed,
                     [hyper_states |-> <<>>, seen |-> {}]).hyper_states

\* Lines 187-199 with only the anchor cell of every piece counted as occupied.
sm_empty_cells_AnchorsOnly(state, data) ==
    {<<r, c>> : r \in 0..(data.rows - 1), c \in 0..(data.cols - 1)}
    \ {<<state[i].row, state[i].col>> : i \in 1..Len(state)}

\* Lines 187-199: total_cells - occupied.
sm_empty_cells(state, data) ==
    {<<r, c>> : r \in 0..(data.rows - 1), c \in 0..(data.cols - 1)}
    \ UNION { {<<state[i].row + r, state[i].col + c>> :
                  r \in 0..(sm_get_piece_dimensions(state[i])[1] - 1),
                  c \in 0..(sm_get_piece_dimensions(state[i])[2] - 1)} :
              i \in 1..Len(state) }

\* list(a set): the elements in an order the implementation chooses.
ListOrders(S) ==
    {s \in [1..Cardinality(S) -> S] : \A i, j \in 1..Cardinality(S) : i # j => s[i] # s[j]}

\* One order of a set of cells: row by row.
RECURSIVE RowMajor(_)
RowMajor(S) ==
    IF S = {} THEN <<>>
    ELSE LET first == CHOOSE x \in S : \A y \in S :
                          x[1] < y[1] \/ (x[1] = y[1] /\ x[2] <= y[2])
         IN <<first>> \o RowMajor(S \ {first})

BlockLabel(idx) == LabelOrder[2 + idx]

\* Lines 200-215 with the blocks put on runs of consecutive list entries only.
sm_generate_supernodes_Windows(state, data, empty_spaces) ==
    IF Len(empty_spaces) >= NumBlocks
    THEN [k \in 1..(Len(empty_spaces) - NumBlocks + 1) |->
             state \o [idx \in 1..NumBlocks |->
                          [label |-> BlockLabel(idx), piece_type |-> "1x1",
                           row |-> empty_spaces[k + idx - 1][1],
                           col |-> empty_spaces[k + idx - 1][2]]]]
    ELSE <<>>

\* Lines 200-215 without the test of line 201, as many blocks placed as fit.
sm_generate_supernodes_Fewer(state, data, empty_spaces) ==
    LET n == IF Len(empty_spaces) < NumBlocks THEN Len(empty_spaces) ELSE NumBlocks
        combos == combinations(empty_spaces, n)
    IN [k \in 1..Len(combos) |->
           state \o [idx \in 1..n |->
                        [label |-> BlockLabel(idx), piece_type |-> "1x1",
                         row |-> combos[k][idx][1], col |-> combos[k][idx][2]]]]

\* Lines 200-215, empty_spaces being the list made of the empty cells.
sm_generate_supernodes(state, data, empty_spaces) ==
    IF Len(empty_spaces) >= NumBlocks
    THEN LET combos == combinations(empty_spaces, NumBlocks)
         IN [k \in 1..Len(combos) |->
                state \o [idx \in 1..NumBlocks |->
                             [label |-> BlockLabel(idx), piece_type |-> "1x1",
                              row |-> combos[k][idx][1], col |-> combos[k][idx][2]]]]
    ELSE <<>>

\* The configurations main() is run on.
SmConfigs == Configs(SmTypes)

\* Piece lists of length n, labelled PieceLabels[1..n], as a configuration file
\* that only counts the dominoes gives them: the 1x1 pieces on distinct cells of
\* the grid, every domino with the anchor (0, 0), which generate_hypernodes
\* never reads.
RECURSIVE UnplacedPieceLists(_, _, _)
UnplacedPieceLists(rows, cols, n) ==
    IF n = 0 THEN {<<>>}
    ELSE UNION { {Append(s, p) :
                     p \in {q \in PiecesAt(PieceLabels[n], SmTypes, rows, cols) :
                              IF q.piece_type = "1x1"
                              THEN \A i \in 1..Len(s) :
                                      s[i].piece_type = "1x1" =>
                                          <<s[i].row, s[i].col>> # <<q.row, q.col>>
                              ELSE q.row = 0 /\ q.col = 0}} :
                 s \in UnplacedPieceLists(rows, cols, n - 1) }

\* load_puzzle_config checks nothing: main() also runs on configurations whose
\* dominoes do not fit.
SmUnplacedConfigs ==
    UNION { UNION { {[rows |-> g[1], cols |-> g[2], pieces |-> ps, target |-> t] :
                        ps \in UnplacedPieceLists(g[1], g[2], n),
                        t \in {PieceLabels[k] : k \in 1..n} \cup {MissingLabel}} :
                    n \in 1..MaxPieces } :
            g \in Grids }

SmGenConfigs == SmConfigs \cup SmUnplacedConfigs

\* main(), lines 222-227: the configuration is loaded and the hyper-nodes are
\* generated.
SmGenerateHypernodes ==
    /\ pc = "main"
    /\ puzzle_data' \in SmGenConfigs
    /\ hyper_states' = sm_generate_hypernodes(puzzle_data')
    /\ pc' = "hypernodes"
    /\ UNCHANGED <<toolVars, auxVars, queue, visited, current_pieces, move_history, possible_moves, ret,
                   total_configurations, hyper_state, super_states, initial_pieces>>

\* main(), lines 229-231: the super-nodes of one hyper-node are generated (the
\* loop visits every hyper-node; idx is the one followed).
SmGenerateSupernodes ==
    /\ pc = "hypernodes"
    /\ \E idx \in 1..Len(hyper_states) :
       \E empty_spaces \in ListOrders(sm_empty_cells(hyper_states[idx], puzzle_data)) :
          /\ hyper_state' = hyper_states[idx]
          /\ super_states' = sm_generate_supernodes(hyper_states[idx], puzzle_data, empty_spaces)
    /\ pc' = "supernodes"
    /\ UNCHANGED <<toolVars, auxVars, puzzle_data, queue, visited, current_pieces, move_history, possible_moves,
                   ret, total_configurations, hyper_states, initial_pieces>>

GenNext == SmGenerateHypernodes \/ SmGenerateSupernodes

SpecGen == Init /\ [][GenNext]_vars

----------------------------------------------------------------------------
(* shortestMoves.py: BFS from a super-node                                  *)

\* Every piece is given all four moves; nothing is checked.  A label keeps the
\* list of the last piece that carries it.
sm_get_all_possible_moves(pieces, rows, cols) ==
    LET movesOf(piece) ==
            [k \in 1..Len(MOVES) |->
                <<MOVES[k].direction, piece.row + MOVES[k].dr, piece.col + MOVES[k].dc>>]
    IN [l \in LabelsOf(pieces) |->
           movesOf(pieces[CHOOSE i \in 1..Len(pieces) :
                             /\ pieces[i].label = l
                             /\ \A j \in (i + 1)..Len(pieces) : pieces[j].label # l])]

\* Line 91: the goal test.
sm_goal_test(target_piece, rows) == target_piece.row = rows - 1 /\ target_piece.col = 0

\* Lines 99-106, one pass of the inner loop body.  acc is [visited, queue].
sm_visit(acc, pieces, history, c) ==
    LET new_pieces == MovePiece(pieces, c.label, c.move[2], c.move[3])
        new_state == board_to_tuple(new_pieces)
    IN IF new_state \notin acc.visited
       THEN [visited |-> acc.visited \cup {new_state},
             queue |-> Append(acc.queue,
                              [pieces |-> new_pieces,
                               move_history |-> Append(history, <<c.label, c.move[1]>>)])]
       ELSE acc

\* Lines 95-106: the two nested for-loops, over cands[k..] in order.
RECURSIVE sm_expand(_, _, _, _, _)
sm_expand(cands, k, pieces, history, acc) ==
    IF k > Len(cands) THEN acc
    ELSE sm_expand(cands, k + 1, pieces, history,
                   CHOOSE r \in {sm_visit(a, pieces, history, cands[k]) : a \in {acc}} : TRUE)

Elements(s) == {s[i] : i \in 1..Len(s)}

GoalDistance(pieces, data) ==
    LET t == TargetIndex(pieces, data.target)
    IN IF t = 0 THEN 0
       ELSE (IF pieces[t].row > data.rows - 1 THEN pieces[t].row - (data.rows - 1)
             ELSE (data.rows - 1) - pieces[t].row) + pieces[t].col

\* main(), lines 227-235: the super-nodes find_shortest_target_path_from_state
\* is called on, the list of empty cells taken row by row.
SmBfsInputs ==
    UNION { UNION { {[puzzle_data |-> d, initial_pieces |-> sn] :
                        sn \in {x \in Elements(sm_generate_supernodes(
                                                  h, d, RowMajor(sm_empty_cells(h, d)))) :
                                  GoalDistance(x, d) <= MaxGoalDistance}} :
                    h \in Elements(sm_generate_hypernodes(d)) } :
            d \in SmConfigs }

\* Lines 69-79: the target label is on no piece of the state.
SmCallMissing ==
    /\ pc = "main"
    /\ \E in \in SmBfsInputs :
          /\ TargetIndex(in.initial_pieces, in.puzzle_data.target) = 0
          /\ puzzle_data' = in.puzzle_data
          /\ initial_pieces' = in.initial_pieces
    /\ pc' = "return_missing"
    /\ ret' = <<>>
    /\ UNCHANGED <<toolVars, auxVars, queue, visited, current_pieces, move_history, possible_moves,
                   total_configurations, hyper_states, hyper_state, super_states>>

\* Lines 69-82: the queue and the visited set are seeded.
SmCall ==
    /\ pc = "main"
    /\ \E in \in SmBfsInputs :
          /\ TargetIndex(in.initial_pieces, in.puzzle_data.target) # 0
          /\ puzzle_data' = in.puzzle_data
          /\ initial_pieces' = in.initial_pieces
          /\ queue' = <<[pieces |-> in.initial_pieces, move_history |-> <<>>]>>
          /\ visited' = {board_to_tuple(in.initial_pieces)}
    /\ pc' = "loop"
    /\ UNCHANGED <<toolVars, auxVars, current_pieces, move_history, possible_moves, ret,
                   total_configurations, hyper_states, hyper_state, super_states>>

\* Lines 84-108: one iteration of the while loop, or its exit.
SmIterate ==
    /\ pc = "loop"
    /\ IF queue = <<>>
       THEN /\ pc' = "return_empty"
            /\ ret' = <<>>
            /\ UNCHANGED <<queue, visited, current_pieces, move_history, possible_moves>>
       ELSE \E e \in {Head(queue)} : \E t \in {TargetIndex(e.pieces, puzzle_data.target)} :
            /\ current_pieces' = e.pieces
            /\ move_history' = e.move_history
            /\ IF t = 0
               THEN /\ queue' = Tail(queue)
                    /\ UNCHANGED <<pc, ret, visited, possible_moves>>
               ELSE IF sm_goal_test(e.pieces[t], puzzle_data.rows)
               THEN /\ pc' = "return_path"
                    /\ ret' = e.move_history
                    /\ queue' = Tail(queue)
                    /\ UNCHANGED <<visited, possible_moves>>
               ELSE \E pm \in {sm_get_all_possible_moves(e.pieces, puzzle_data.rows,
                                                         puzzle_data.cols)} :
                    \E r \in {sm_expand(MoveList(e.pieces, pm, 1), 1, e.pieces, e.move_history,
                                        [visited |-> visited, queue |-> Tail(queue)])} :
                       /\ possible_moves' = pm
                       /\ visited' = r.visited
                       /\ queue' = r.queue
                       /\ UNCHANGED <<pc, ret>>
    /\ UNCHANGED <<toolVars, auxVars, puzzle_data, total_configurations, genVars>>

SmNext == SmCallMissing \/ SmCall \/ SmIterate

SpecShortest == Init /\ [][SmNext]_vars

----------------------------------------------------------------------------
(* March3/generate_states.py.  Its placements, combinations, board_to_tuple  *)
(* and MOVES are the expressions of shortestMoves.py; the hyper-nodes rename *)
(* the dominoes and the move generator checks the moves of the dominoes.     *)

M3Types == {"1x1", "1x2", "2x1", "2x2"}

\* Bound on the grids March3/generate_states.py is run on.
M3MaxCells == 8

M3Grids == {g \in (1..M3MaxCells) \X (1..M3MaxCells) : g[1] * g[2] <= M3MaxCells}

\* Lines 103-110 and 141-146: every type but the two dominoes counts as 1x1.
m3_dimensions(piece) ==
    CASE piece.piece_type = "1x2" -> <<1, 2>>
      [] piece.piece_type = "2x1" -> <<2, 1>>
      [] OTHER -> <<1, 1>>

\* f"H1x2_{len(state)}" and f"H2x1_{len(state)}", by len(state).
m3_label(piece_type, len_state) ==
    IF piece_type = "1x2" THEN LabelOrder[8 + len_state] ELSE LabelOrder[12 + len_state]

\* Lines 64-77: the chosen placements as pieces, named by their position in
\* the state.
m3_state(chosen_h, chosen_v) ==
    [i \in 1..(Len(chosen_h) + Len(chosen_v)) |->
        IF i <= Len(chosen_h)
        THEN [label |-> m3_label("1x2", i - 1), piece_type |-> "1x2",
              row |-> chosen_h[i][1][1], col |-> chosen_h[i][1][2]]
        ELSE [label |-> m3_label("2x1", i - 1), piece_type |-> "2x1",
              row |-> chosen_v[i - Len(chosen_h)][1][1],
              col |-> chosen_v[i - Len(chosen_h)][1][2]]]

\* Lines 57-84: the double loop over the combinations; acc is
\* [valid_states, seen_states].
RECURSIVE m3_hyper_loop(_, _, _, _)
m3_hyper_loop(combs, k, fixed_pieces, acc) ==
    IF k > Len(combs) THEN acc
    ELSE LET chosen_h == combs[k][1]
             chosen_v == combs[k][2]
             state == m3_state(chosen_h, chosen_v) \o fixed_pieces
             state_tuple == board_to_tuple(state)
         IN IF sm_placements_valid(chosen_h \o chosen_v, {}) /\ state_tuple \notin acc.seen_states
            THEN m3_hyper_loop(combs, k + 1, fixed_pieces,
                               [valid_states |-> Append(acc.valid_states, state),
                                seen_states |-> acc.seen_states \cup {state_tuple}])
            ELSE m3_hyper_loop(combs, k + 1, fixed_pieces, acc)

m3_generate_hypernodes(data) ==
    LET fixed_pieces == SelectPieces(data.pieces, M3Types \ {"1x2", "2x1"})
        movable_pieces == SelectPieces(data.pieces, {"1x2", "2x1"})
        num_1x2 == Len(SelectPieces(movable_pieces, {"1x2"}))
        num_2x1 == Len(SelectPieces(movable_pieces, {"2x1"}))
        combs == Product(combinations(sm_placements_h(data.rows, data.cols), num_1x2),
                         combinations(sm_placements_v(data.rows, data.cols), num_2x1))
    IN m3_hyper_loop(combs, 1, fixed_pieces,
                     [valid_states |-> <<>>, seen_states |-> {}]).valid_states

\* Lines 98-115: total_cells - occupied_cells.
m3_empty_cells(state, data) ==
    {<<r, c>> : r \in 0..(data.rows - 1), c \in 0..(data.cols - 1)}
    \ UNION { {<<state[i].row + r, state[i].col + c>> :
                  r \in 0..(m3_dimensions(state[i])[1] - 1),
                  c \in 0..(m3_dimensions(state[i])[2] - 1)} :
              i \in 1..Len(state) }

\* Lines 116-125, empty_spaces being the list made of the empty cells.
m3_generate_supernodes(state, data, empty_spaces) ==
    IF Len(empty_spaces) >= NumBlocks
    THEN LET combos == combinations(empty_spaces, NumBlocks)
         IN [k \in 1..Len(combos) |->
                state \o [idx \in 1..NumBlocks |->
                             [label |-> BlockLabel(idx), piece_type |-> "1x1",
                              row |-> combos[k][idx][1], col |-> combos[k][idx][2]]]]
    ELSE <<>>

\* Lines 138-149: the cells of all pieces, a cell keeping the label of the last
\* piece written to it.
m3_board(pieces) ==
    LET cellsOf(i) ==
            {<<pieces[i].row + r, pieces[i].col + c>> :
                r \in 0..(m3_dimensions(pieces[i])[1] - 1),
                c \in 0..(m3_dimensions(pieces[i])[2] - 1)}
    IN [cell \in UNION {cellsOf(i) : i \in 1..Len(pieces)} |->
           pieces[CHOOSE i \in 1..Len(pieces) :
                     /\ cell \in cellsOf(i)
                     /\ \A j \in (i + 1)..Len(pieces) : cell \notin cellsOf(j)].label]

\* Lines 160-175: the moves of one domino, in the order of MOVES.
m3_moves_of(p, board, rows, cols) ==
    LET h == m3_dimensions(p)[1]
        w == m3_dimensions(p)[2]
        can_move(new_row, new_col) ==
            /\ ~(new_row < 0 \/ new_col < 0 \/ new_row + h > rows \/ new_col + w > cols)
            /\ \A r \in 0..(h - 1), c \in 0..(w - 1) :
                  ~(<<new_row + r, new_col + c>> \in DOMAIN board
                    /\ board[<<new_row + r, new_col + c>>] # p.label)
        pick[k \in 0..Len(MOVES)] ==
            IF k = 0 THEN <<>>
            ELSE IF can_move(p.row + MOVES[k].dr, p.col + MOVES[k].dc)
                 THEN Append(pick[k - 1], <<MOVES[k].direction, p.row + MOVES[k].dr,
                                            p.col + MOVES[k].dc>>)
                 ELSE pick[k - 1]
    IN pick[Len(MOVES)]

\* Lines 131-178 with the test of line 154 left out: every piece gets its moves.
m3_get_all_possible_moves_AllMovable(pieces, rows, cols) ==
    LET board == m3_board(pieces)
    IN [l \in LabelsOf(pieces) |->
           m3_moves_of(pieces[CHOOSE i \in 1..Len(pieces) :
                                 /\ pieces[i].label = l
                                 /\ \A j \in (i + 1)..Len(pieces) : pieces[j].label # l],
                       board, rows, cols)]

\* Lines 131-178.  moves_dict[label] is written for every piece, so a label
\* keeps the list of the last piece that carries it.
m3_get_all_possible_moves(pieces, rows, cols) ==
    LET board == m3_board(pieces)
        last(l) == pieces[CHOOSE i \in 1..Len(pieces) :
                             /\ pieces[i].label = l
                             /\ \A j \in (i + 1)..Len(pieces) : pieces[j].label # l]
    IN [l \in LabelsOf(pieces) |->
           IF last(l).piece_type \in {"1x2", "2x1"}
           THEN m3_moves_of(last(l), board, rows, cols)
           ELSE <<>>]

\* Piece lists of length n, labelled PieceLabels[1..n], satisfying the
\* invariant.  generate_hypernodes reads of the dominoes only how many there are
\* of each orientation (lines 47-48): every domino is listed with one anchor,
\* the first in row-major order at which it fits.
RECURSIVE M3PieceLists(_, _, _)
M3PieceLists(rows, cols, n) ==
    IF n = 0 THEN {<<>>}
    ELSE UNION { {Append(s, p) :
                     p \in {q \in PiecesAt(PieceLabels[n], M3Types, rows, cols) :
                              /\ BoardInvariant(Append(s, q), rows, cols)
                              /\ q.piece_type \in {"1x2", "2x1"} =>
                                    \A a \in GridCells(rows, cols) :
                                        BoardInvariant(Append(s, [q EXCEPT !.row = a[1],
                                                                           !.col = a[2]]),
                                                       rows, cols)
                                        => \/ q.row < a[1]
                                           \/ q.row = a[1] /\ q.col <= a[2]}} :
                 s \in M3PieceLists(rows, cols, n - 1) }

M3Configs ==
    UNION { UNION { {[rows |-> g[1], cols |-> g[2], pieces |-> ps, target |-> t] :
                        ps \in M3PieceLists(g[1], g[2], n),
                        t \in {PieceLabels[k] : k \in 1..n} \cup {MissingLabel}} :
                    n \in 1..MaxPieces } :
            g \in M3Grids }

\* main(), lines 239-245: the super-nodes of the hyper-nodes of a
\* configuration, the list of empty cells taken row by row.
M3SuperStates(d) ==
    UNION {Elements(m3_generate_supernodes(h, d, RowMajor(m3_empty_cells(h, d)))) :
              h \in Elements(m3_generate_hypernodes(d))}

\* Lines 196-200: the target label is on no piece of the state.
M3CallMissing ==
    /\ pc = "main"
    /\ \E d \in M3Configs : \E sn \in M3SuperStates(d) :
          /\ TargetIndex(sn, d.target) = 0
          /\ puzzle_data' = d
          /\ initial_pieces' = sn
    /\ pc' = "return_missing"
    /\ ret' = <<>>
    /\ UNCHANGED <<toolVars, auxVars, queue, visited, current_pieces, move_history, possible_moves,
                   total_configurations, hyper_states, hyper_state, super_states>>

\* Lines 190-203: the queue and the visited set are seeded.
M3Call ==
    /\ pc = "main"
    /\ \E d \in M3Configs : \E sn \in M3SuperStates(d) :
          /\ TargetIndex(sn, d.target) # 0
          /\ puzzle_data' = d
          /\ initial_pieces' = sn
          /\ queue' = <<[pieces |-> sn, move_history |-> <<>>]>>
          /\ visited' = {board_to_tuple(sn)}
    /\ pc' = "loop"
    /\ UNCHANGED <<toolVars, auxVars, current_pieces, move_history, possible_moves, ret,
                   total_configurations, hyper_states, hyper_state, super_states>>

\* Lines 206-210: the dequeued state has the target at (rows-1, 0).
M3ReturnPath ==
    /\ pc = "loop"
    /\ queue # <<>>
    /\ \E e \in {Head(queue)} : \E t \in {TargetIndex(e.pieces, puzzle_data.target)} :
          /\ e.pieces[t].row = puzzle_data.rows - 1 /\ e.pieces[t].col = 0
          /\ current_pieces' = e.pieces
          /\ move_history' = e.move_history
          /\ ret' = e.move_history
    /\ queue' = Tail(queue)
    /\ pc' = "return_path"
    /\ UNCHANGED <<toolVars, auxVars, puzzle_data, visited, possible_moves, total_configurations, genVars>>

\* Lines 206-223: the dequeued state is expanded.
M3Expand ==
    /\ pc = "loop"
    /\ queue # <<>>
    /\ \E e \in {Head(queue)} : \E t \in {TargetIndex(e.pieces, puzzle_data.target)} :
       \E pm \in {m3_get_all_possible_moves(e.pieces, puzzle_data.rows, puzzle_data.cols)} :
       \E r \in {sm_expand(MoveList(e.pieces, pm, 1), 1, e.pieces, e.move_history,
                           [visited |-> visited, queue |-> Tail(queue)])} :
          /\ ~(e.pieces[t].row = puzzle_data.rows - 1 /\ e.pieces[t].col = 0)
          /\ current_pieces' = e.pieces
          /\ move_history' = e.move_history
          /\ possible_moves' = pm
          /\ visited' = r.visited
          /\ queue' = r.queue
    /\ UNCHANGED <<toolVars, auxVars, puzzle_data, pc, ret, total_configurations, genVars>>

\* Lines 225-226: the frontier is empty.
M3ReturnEmpty ==
    /\ pc = "loop"
    /\ queue = <<>>
    /\ pc' = "return_empty"
    /\ ret' = <<>>
    /\ UNCHANGED <<toolVars, auxVars, puzzle_data, queue, visited, current_pieces, move_history,
                   possible_moves, total_configurations, genVars>>

M3Next == M3CallMissing \/ M3Call \/ M3ReturnPath \/ M3Expand \/ M3ReturnEmpty

SpecMarch3 == Init /\ [][M3Next]_vars

----------------------------------------------------------------------------
(* board_to_tuple as the visited set uses it: the key of a state is added,   *)
(* then a second state is looked up and added when its key is new.           *)

\* Bound on the number of pieces of the states the keys are taken of.
KeyMaxPieces == 3

KeySeeds ==
    UNION { UNION { {[rows |-> g[1], cols |-> g[2], pieces |-> ps, target |-> PieceLabels[1]] :
                        ps \in ValidPieceLists(g[1], g[2], SmTypes, n)} :
                    n \in 1..KeyMaxPieces } :
            g \in Grids }

\* The same pieces listed in every order.
Reordered(s) == {[i \in 1..Len(s) |-> s[p[i]]] : p \in ListOrders(1..Len(s))}

\* The state itself, the states with the anchors of two pieces exchanged and
\* the states with one piece one cell further.
Reanchored(s) ==
    {s}
    \cup {[s EXCEPT ![i] = [@ EXCEPT !.row = s[j].row, !.col = s[j].col],
                    ![j] = [@ EXCEPT !.row = s[i].row, !.col = s[i].col]] :
            i \in 1..Len(s), j \in 1..Len(s)}
    \cup {[s EXCEPT ![i] = [@ EXCEPT !.row = @ + MOVES[k].dr, !.col = s[i].col + MOVES[k].dc]] :
            i \in 1..Len(s), k \in 1..Len(MOVES)}

\* Lines 81-82: the first state is queued and its key added to visited.
KeySeed ==
    /\ pc = "main"
    /\ \E d \in KeySeeds :
          /\ puzzle_data' = d
          /\ initial_pieces' = d.pieces
          /\ queue' = <<[pieces |-> d.pieces, move_history |-> <<>>]>>
          /\ visited' = {board_to_tuple(d.pieces)}
    /\ pc' = "seeded"
    /\ UNCHANGED <<toolVars, auxVars, current_pieces, move_history, possible_moves, ret,
                   total_configurations, hyper_states, hyper_state, super_states>>

\* Lines 102-106: a second state is queued when its key is not in visited.
KeyVisit ==
    /\ pc = "seeded"
    /\ \E a \in Reanchored(initial_pieces) : \E new_pieces \in Reordered(a) :
       \E new_state \in {board_to_tuple(new_pieces)} :
          /\ current_pieces' = new_pieces
          /\ IF new_state \notin visited
             THEN /\ visited' = visited \cup {new_state}
                  /\ queue' = Append(queue, [pieces |-> new_pieces, move_history |-> <<>>])
             ELSE UNCHANGED <<visited, queue>>
    /\ pc' = "visited"
    /\ UNCHANGED <<toolVars, auxVars, puzzle_data, move_history, possible_moves, ret, total_configurations,
                   genVars>>

KeyNext == KeySeed \/ KeyVisit

SpecKeys == Init /\ [][KeyNext]_vars

----------------------------------------------------------------------------
(* simpleShortestMoves.find_shortest_target_path over piece references: a    *)
(* state is a list of ids of piece dicts, heap[id] is the content of the     *)
(* dict; height and width are 0 while the dict has no such key.  In this     *)
(* specification the entries of queue and current_pieces are lists of ids.   *)

\* The dicts load_puzzle_config builds, in the order of the pieces list.
hp_load(pieces) ==
    [i \in 1..Len(pieces) |->
        [label |-> pieces[i].label, piece_type |-> pieces[i].piece_type,
         row |-> pieces[i].row, col |-> pieces[i].col, height |-> 0, width |-> 0]]

\* The dicts a list of references names.
hp_deref(h, ids) == [i \in 1..Len(ids) |-> h[ids[i]]]

\* Line 60: create_board_representation stores height and width in every dict
\* of the list it is given.
hp_create_board_representation(h, ids) ==
    [x \in 1..Len(h) |->
        IF x \in Elements(ids)
        THEN [h[x] EXCEPT !.height = ssm_get_piece_dimensions(h[x])[1],
                          !.width = ssm_get_piece_dimensions(h[x])[2]]
        ELSE h[x]]

\* Line 122 without the copies: the new list names the dicts of the current one.
hp_copy_Alias(h, ids) == [heap |-> h, pieces |-> ids]

\* Line 122, new_pieces = [p.copy() for p in current_pieces]: one new dict per
\* piece, with the content of the old one.
hp_copy(h, ids) ==
    [heap |-> h \o hp_deref(h, ids),
     pieces |-> [i \in 1..Len(ids) |-> Len(h) + i]]

\* Lines 123-125: every dict of the list that carries the label gets the new anchor.
hp_move(h, ids, label, new_row, new_col) ==
    [x \in 1..Len(h) |->
        IF x \in Elements(ids) /\ h[x].label = label
        THEN [h[x] EXCEPT !.row = new_row, !.col = new_col]
        ELSE h[x]]

\* Lines 122-129, one pass of the inner loop body; acc is [visited, queue, heap].
\* The copies of a state that is not enqueued are unreachable and dropped.
hp_visit(acc, ids, history, c) ==
    LET cp == hp_copy(acc.heap, ids)
        moved == hp_move(cp.heap, cp.pieces, c.label, c.move[2], c.move[3])
        new_state == board_to_tuple(hp_deref(moved, cp.pieces))
    IN IF new_state \notin acc.visited
       THEN [visited |-> acc.visited \cup {new_state},
             queue |-> Append(acc.queue,
                              [pieces |-> cp.pieces,
                               move_history |-> Append(history, <<c.label, c.move[1]>>)]),
             heap |-> moved]
       ELSE [acc EXCEPT !.heap = SubSeq(moved, 1, Len(acc.heap))]

\* Lines 120-129: the two nested for-loops, over cands[k..] in order.
RECURSIVE hp_expand(_, _, _, _, _)
hp_expand(cands, k, ids, history, acc) ==
    IF k > Len(cands) THEN acc
    ELSE hp_expand(cands, k + 1, ids, history,
                   CHOOSE r \in {hp_visit(a, ids, history, cands[k]) : a \in {acc}} : TRUE)

\* main() loads a configuration and calls find_shortest_target_path, which
\* puts the caller's list itself in the queue (lines 103-110).
HpCall ==
    /\ pc = "main"
    /\ puzzle_data' \in SsmConfigs
    /\ heap' = hp_load(puzzle_data'.pieces)
    /\ queue' = <<[pieces |-> [i \in 1..Len(puzzle_data'.pieces) |-> i],
                   move_history |-> <<>>]>>
    /\ visited' = {board_to_tuple(puzzle_data'.pieces)}
    /\ pc' = "loop"
    /\ UNCHANGED <<toolVars, current_pieces, move_history, possible_moves, ret,
                   total_configurations, genVars, valid_end_states, image_states>>

\* Line 114: the target label is on no piece of the dequeued state.
HpRaise ==
    /\ pc = "loop"
    /\ queue # <<>>
    /\ TargetIndex(hp_deref(heap, Head(queue).pieces), puzzle_data.target) = 0
    /\ current_pieces' = Head(queue).pieces
    /\ move_history' = Head(queue).move_history
    /\ queue' = Tail(queue)
    /\ pc' = "raise_StopIteration"
    /\ UNCHANGED <<toolVars, auxVars, puzzle_data, visited, possible_moves, ret,
                   total_configurations, genVars>>

\* Lines 113-118: the dequeued state satisfies the goal test.
HpReturnPath ==
    /\ pc = "loop"
    /\ queue # <<>>
    /\ LET e == Head(queue)
           ps == hp_deref(heap, e.pieces)
           t == TargetIndex(ps, puzzle_data.target)
       IN /\ t # 0
          /\ ssm_goal_test(ps[t], puzzle_data.rows)
          /\ current_pieces' = e.pieces
          /\ move_history' = e.move_history
          /\ ret' = e.move_history
    /\ queue' = Tail(queue)
    /\ pc' = "return_path"
    /\ UNCHANGED <<toolVars, auxVars, puzzle_data, visited, possible_moves,
                   total_configurations, genVars>>

\* Lines 113-129: the dequeued state is expanded; get_all_possible_moves first
\* stores height and width in its dicts.
HpExpand ==
    /\ pc = "loop"
    /\ queue # <<>>
    /\ \E e \in {Head(queue)} :
       \E h \in {hp_create_board_representation(heap, e.pieces)} :
       \E ps \in {hp_deref(h, e.pieces)} :
       \E pm \in {ssm_get_all_possible_moves(ps, puzzle_data.rows, puzzle_data.cols)} :
       \E cands \in {MoveList(ps, pm, 1)} :
       \E r \in {hp_expand(cands, 1, e.pieces, e.move_history,
                            [visited |-> visited, queue |-> Tail(queue), heap |-> h])} :
          /\ TargetIndex(ps, puzzle_data.target) # 0
          /\ ~ssm_goal_test(ps[TargetIndex(ps, puzzle_data.target)], puzzle_data.rows)
          /\ current_pieces' = e.pieces
          /\ move_history' = e.move_history
          /\ possible_moves' = pm
          /\ visited' = r.visited
          /\ queue' = r.queue
          /\ heap' = r.heap
    /\ UNCHANGED <<toolVars, puzzle_data, pc, ret, total_configurations, genVars,
                   valid_end_states, image_states>>

\* Line 130: the frontier is empty.
HpReturnEmpty ==
    /\ pc = "loop"
    /\ queue = <<>>
    /\ pc' = "return_empty"
    /\ ret' = <<>>
    /\ UNCHANGED <<toolVars, auxVars, puzzle_data, queue, visited, current_pieces, move_history,
                   possible_moves, total_configurations, genVars>>

HpNext == HpCall \/ HpRaise \/ HpReturnPath \/ HpExpand \/ HpReturnEmpty

SpecSimpleHeap == Init /\ [][HpNext]_vars

----------------------------------------------------------------------------
(* graph/heatmap.py.  A piece dict is a record with the fields height and    *)
(* width, 0 while the dict has no such key.  The placements and the overlap  *)
(* test of count_valid_arrangements (lines 105-118) are the expressions of    *)
(* shortestMoves.generate_hypernodes.                                        *)

HmTypes == {"1x1", "1x2", "2x1"}

\* Grids of at most HmMaxCells cells.
HmMaxCells == 7

HmGrids == {g \in (1..HmMaxCells) \X (1..HmMaxCells) : g[1] * g[2] <= HmMaxCells}

hm_get_piece_dimensions(piece) ==
    CASE piece.piece_type = "1x1" -> <<1, 1>>
      [] piece.piece_type = "1x2" -> <<1, 2>>
      [] piece.piece_type = "2x1" -> <<2, 1>>

\* The dicts of puzzle_data["pieces"]: label, piece_type, row and col only.
hm_load(pieces) ==
    [i \in 1..Len(pieces) |->
        [label |-> pieces[i].label, piece_type |-> pieces[i].piece_type,
         row |-> pieces[i].row, col |-> pieces[i].col, height |-> 0, width |-> 0]]

\* Lines 122-138: zip(pieces, placements); each copy is anchored at the first
\* cell of its placement and given height and width.
hm_place(pieces, placements) ==
    [i \in 1..(IF Len(pieces) < Len(placements) THEN Len(pieces) ELSE Len(placements)) |->
        [pieces[i] EXCEPT !.row = placements[i][1][1], !.col = placements[i][1][2],
                          !.height = hm_get_piece_dimensions(pieces[i])[1],
                          !.width = hm_get_piece_dimensions(pieces[i])[2]]]

\* Lines 110-144: the double loop over the combinations; acc is
\* [valid_states, valid_states_set].  The fixed pieces are appended as copied.
RECURSIVE hm_arrange_loop(_, _, _, _, _, _)
hm_arrange_loop(combs, k, arrangeable_1x2, arrangeable_2x1, fixed_pieces, acc) ==
    IF k > Len(combs) THEN acc
    ELSE LET chosen_h == combs[k][1]
             chosen_v == combs[k][2]
             state_list == hm_place(arrangeable_1x2, chosen_h)
                           \o hm_place(arrangeable_2x1, chosen_v) \o fixed_pieces
             state_tuple == board_to_tuple(state_list)
         IN IF sm_placements_valid(chosen_h \o chosen_v, {})
               /\ state_tuple \notin acc.valid_states_set
            THEN hm_arrange_loop(combs, k + 1, arrangeable_1x2, arrangeable_2x1, fixed_pieces,
                                 [valid_states |-> Append(acc.valid_states, state_list),
                                  valid_states_set |-> acc.valid_states_set \cup {state_tuple}])
            ELSE hm_arrange_loop(combs, k + 1, arrangeable_1x2, arrangeable_2x1, fixed_pieces,
                                 acc)

hm_count_valid_arrangements(data) ==
    LET pieces == hm_load(data.pieces)
        arrangeable_1x2 == SelectPieces(pieces, {"1x2"})
        arrangeable_2x1 == SelectPieces(pieces, {"2x1"})
        fixed_pieces == SelectPieces(pieces, HmTypes \ {"1x2", "2x1"})
        combs == Product(combinations(sm_placements_h(data.rows, data.cols),
                                      Len(arrangeable_1x2)),
                         combinations(sm_placements_v(data.rows, data.cols),
                                      Len(arrangeable_2x1)))
    IN hm_arrange_loop(combs, 1, arrangeable_1x2, arrangeable_2x1, fixed_pieces,
                       [valid_states |-> <<>>, valid_states_set |-> {}]).valid_states

\* piece["height"] and piece["width"] of lines 158-159 find their keys.
hm_has_dimensions(state) ==
    \A i \in 1..Len(state) : state[i].height # 0 /\ state[i].width # 0

\* Lines 155-163: total_cells - occupied_cells, the footprints taken from the
\* height and width stored in the dicts.
hm_empty_cells(state, data) ==
    {<<r, c>> : r \in 0..(data.rows - 1), c \in 0..(data.cols - 1)}
    \ UNION { {<<state[i].row + r, state[i].col + c>> :
                  r \in 0..(state[i].height - 1), c \in 0..(state[i].width - 1)} :
              i \in 1..Len(state) }

\* Lines 164-179, empty_spaces being the list made of the empty cells.
hm_count_supernode_arrangements(state, data, empty_spaces) ==
    IF Len(empty_spaces) >= NumBlocks
    THEN LET combos == combinations(empty_spaces, NumBlocks)
         IN [k \in 1..Len(combos) |->
                state \o [idx \in 1..NumBlocks |->
                             [label |-> BlockLabel(idx), piece_type |-> "1x1",
                              row |-> combos[k][idx][1], col |-> combos[k][idx][2],
                              height |-> 1, width |-> 1]]]
    ELSE <<>>

\* Line 50: create_board_representation stores height and width in every dict.
hm_set_dimensions(pieces) ==
    [i \in 1..Len(pieces) |->
        [pieces[i] EXCEPT !.height = hm_get_piece_dimensions(pieces[i])[1],
                          !.width = hm_get_piece_dimensions(pieces[i])[2]]]

\* Lines 45-54: board[(row + r, col + c)] = label, a later piece overwriting an
\* earlier one.
hm_create_board_representation(pieces) ==
    LET covers(i, cell) ==
            LET d == hm_get_piece_dimensions(pieces[i]) IN
            /\ pieces[i].row <= cell[1] /\ cell[1] < pieces[i].row + d[1]
            /\ pieces[i].col <= cell[2] /\ cell[2] < pieces[i].col + d[2]
        cellsOf(i) ==
            LET d == hm_get_piece_dimensions(pieces[i]) IN
            {<<pieces[i].row + r, pieces[i].col + c>> : r \in 0..(d[1] - 1), c \in 0..(d[2] - 1)}
        keys == UNION {cellsOf(i) : i \in 1..Len(pieces)}
    IN [cell \in keys |->
           pieces[CHOOSE i \in 1..Len(pieces) :
                     /\ covers(i, cell)
                     /\ \A j \in (i + 1)..Len(pieces) : ~covers(j, cell)].label]

\* Lines 56-66, on a piece whose dict holds height and width.
hm_is_valid_move(piece, new_row, new_col, board, rows, cols) ==
    LET new_cells == {<<new_row + r, new_col + c>> :
                         r \in 0..(piece.height - 1), c \in 0..(piece.width - 1)}
    IN IF new_row < 0 \/ new_col < 0 \/ new_row + piece.height > rows
          \/ new_col + piece.width > cols
       THEN FALSE
       ELSE \A cell \in new_cells : ~(cell \in DOMAIN board /\ board[cell] # piece.label)

\* Lines 68-78; pieces are the dicts after line 50 has stored their dimensions.
hm_get_all_possible_moves(pieces, rows, cols) ==
    LET board == hm_create_board_representation(pieces)
        movesOf(piece) ==
            LET ok == [k \in 1..Len(MOVES) |->
                          hm_is_valid_move(piece, piece.row + MOVES[k].dr, piece.col + MOVES[k].dc,
                                           board, rows, cols)]
                pick[k \in 0..Len(MOVES)] ==
                    IF k = 0 THEN <<>>
                    ELSE IF ok[k]
                         THEN Append(pick[k - 1], <<MOVES[k].direction, piece.row + MOVES[k].dr,
                                                    piece.col + MOVES[k].dc>>)
                         ELSE pick[k - 1]
            IN pick[Len(MOVES)]
    IN [l \in LabelsOf(pieces) |->
           movesOf(pieces[CHOOSE i \in 1..Len(pieces) :
                             /\ pieces[i].label = l
                             /\ \A j \in (i + 1)..Len(pieces) : pieces[j].label # l])]

\* Line 206: the target piece is anchored at the bottom-left cell.
hm_goal_test(target_piece, rows) ==
    target_piece.row = rows - 1 /\ target_piece.col = 0

\* Lines 212-219, one pass of the inner loop body; acc is [visited, queue].
hm_visit(acc, pieces, history, c) ==
    LET new_pieces == MovePiece(pieces, c.label, c.move[2], c.move[3])
        new_state == board_to_tuple(new_pieces)
    IN IF new_state \notin acc.visited
       THEN [visited |-> acc.visited \cup {new_state},
             queue |-> Append(acc.queue,
                              [pieces |-> new_pieces,
                               move_history |-> Append(history, <<c.label, c.move[1]>>)])]
       ELSE acc

\* Lines 210-219: the two nested for-loops, over cands[k..] in order.
RECURSIVE hm_expand(_, _, _, _, _)
hm_expand(cands, k, pieces, history, acc) ==
    IF k > Len(cands) THEN acc
    ELSE hm_expand(cands, k + 1, pieces, history,
                   CHOOSE r \in {hm_visit(a, pieces, history, cands[k]) : a \in {acc}} : TRUE)

\* Piece lists of length n, labelled PieceLabels[1..n], satisfying the
\* invariant.  count_valid_arrangements reads of the dominoes only how many
\* there are of each orientation: every domino is listed with one anchor, the
\* first in row-major order at which it fits.
RECURSIVE HmPieceLists(_, _, _)
HmPieceLists(rows, cols, n) ==
    IF n = 0 THEN {<<>>}
    ELSE UNION { {Append(s, p) :
                     p \in {q \in PiecesAt(PieceLabels[n], HmTypes, rows, cols) :
                              /\ BoardInvariant(Append(s, q), rows, cols)
                              /\ q.piece_type \in {"1x2", "2x1"} =>
                                    \A a \in GridCells(rows, cols) :
                                        BoardInvariant(Append(s, [q EXCEPT !.row = a[1],
                                                                           !.col = a[2]]),
                                                       rows, cols)
                                        => \/ q.row < a[1]
                                           \/ q.row = a[1] /\ q.col <= a[2]}} :
                 s \in HmPieceLists(rows, cols, n - 1) }

\* The 3x4 configuration: H on (0,0)-(0,1), V on (1,2)-(2,2), the target T on
\* (0,3).
HmScenario ==
    [rows |-> 3, cols |-> 4,
     pieces |-> <<[label |-> "H", piece_type |-> "1x2", row |-> 0, col |-> 0],
                  [label |-> "V", piece_type |-> "2x1", row |-> 1, col |-> 2],
                  [label |-> "T", piece_type |-> "1x1", row |-> 0, col |-> 3]>>,
     target |-> "T"]

\* The configurations main() is run on.
HmConfigs ==
    {HmScenario}
    \cup UNION { UNION { {[rows |-> g[1], cols |-> g[2], pieces |-> ps, target |-> t] :
                             ps \in HmPieceLists(g[1], g[2], n),
                             t \in {PieceLabels[k] : k \in 1..n} \cup {MissingLabel}} :
                         n \in 1..MaxPieces } :
                 g \in HmGrids }

\* build_radial_graph_with_bfs, line 243: the hyper-nodes of the configuration.
HmCountValidArrangements ==
    /\ pc = "main"
    /\ puzzle_data' \in HmConfigs
    /\ hyper_states' = hm_count_valid_arrangements(puzzle_data')
    /\ pc' = "hypernodes"
    /\ UNCHANGED <<toolVars, auxVars, queue, visited, current_pieces, move_history, possible_moves,
                   ret, total_configurations, hyper_state, super_states, initial_pieces>>

\* Lines 267-269: the super-nodes of one hyper-node, its dicts all holding
\* height and width.
HmCountSupernodeArrangements ==
    /\ pc = "hypernodes"
    /\ \E idx \in {i \in 1..Len(hyper_states) : hm_has_dimensions(hyper_states[i])} :
       \E empty_spaces \in ListOrders(hm_empty_cells(hyper_states[idx], puzzle_data)) :
          /\ hyper_state' = hyper_states[idx]
          /\ super_states' = hm_count_supernode_arrangements(hyper_states[idx], puzzle_data,
                                                             empty_spaces)
    /\ pc' = "supernodes"
    /\ UNCHANGED <<toolVars, auxVars, puzzle_data, queue, visited, current_pieces, move_history,
                   possible_moves, ret, total_configurations, hyper_states, initial_pieces>>

\* Lines 157-159 on a hyper-node with a dict that has no height key.
HmKeyError ==
    /\ pc = "hypernodes"
    /\ \E idx \in 1..Len(hyper_states) :
          /\ ~hm_has_dimensions(hyper_states[idx])
          /\ hyper_state' = hyper_states[idx]
    /\ pc' = "raise_KeyError"
    /\ UNCHANGED <<toolVars, auxVars, puzzle_data, queue, visited, current_pieces, move_history,
                   possible_moves, ret, total_configurations, hyper_states, super_states,
                   initial_pieces>>

\* Lines 286-288 and 192-196: the search is started from a super-node.
HmBfsCall ==
    /\ pc = "supernodes"
    /\ \E k \in 1..Len(super_states) :
          /\ initial_pieces' = super_states[k]
          /\ queue' = <<[pieces |-> super_states[k], move_history |-> <<>>]>>
          /\ visited' = {board_to_tuple(super_states[k])}
    /\ pc' = "loop"
    /\ UNCHANGED <<toolVars, auxVars, puzzle_data, current_pieces, move_history, possible_moves, ret,
                   total_configurations, hyper_states, hyper_state, super_states>>

\* Lines 198-204: the dequeued state has no piece with the target label.
HmBfsSkip ==
    /\ pc = "loop"
    /\ queue # <<>>
    /\ TargetIndex(Head(queue).pieces, puzzle_data.target) = 0
    /\ current_pieces' = Head(queue).pieces
    /\ move_history' = Head(queue).move_history
    /\ queue' = Tail(queue)
    /\ UNCHANGED <<toolVars, auxVars, puzzle_data, pc, visited, possible_moves, ret,
                   total_configurations, genVars>>

\* Lines 198-207: the dequeued state has the target at the bottom-left cell.
HmBfsReturnPath ==
    /\ pc = "loop"
    /\ queue # <<>>
    /\ LET e == Head(queue)
           t == TargetIndex(e.pieces, puzzle_data.target)
       IN /\ t # 0
          /\ hm_goal_test(e.pieces[t], puzzle_data.rows)
          /\ current_pieces' = e.pieces
          /\ move_history' = e.move_history
          /\ ret' = e.move_history
    /\ queue' = Tail(queue)
    /\ pc' = "return_path"
    /\ UNCHANGED <<toolVars, auxVars, puzzle_data, visited, possible_moves, total_configurations,
                   genVars>>

\* Lines 198-219: the dequeued state is expanded.
HmBfsExpand ==
    /\ pc = "loop"
    /\ queue # <<>>
    /\ \E e \in {Head(queue)} :
       \E ps \in {hm_set_dimensions(e.pieces)} :
       \E pm \in {hm_get_all_possible_moves(ps, puzzle_data.rows, puzzle_data.cols)} :
       \E r \in {hm_expand(MoveList(ps, pm, 1), 1, ps, e.move_history,
                            [visited |-> visited, queue |-> Tail(queue)])} :
          /\ TargetIndex(e.pieces, puzzle_data.target) # 0
          /\ ~hm_goal_test(e.pieces[TargetIndex(e.pieces, puzzle_data.target)], puzzle_data.rows)
          /\ current_pieces' = ps
          /\ move_history' = e.move_history
          /\ possible_moves' = pm
          /\ visited' = r.visited
          /\ queue' = r.queue
    /\ UNCHANGED <<toolVars, auxVars, puzzle_data, pc, ret, total_configurations, genVars>>

\* Line 220: the frontier is empty, None is returned.
HmBfsReturnNone ==
    /\ pc = "loop"
    /\ queue = <<>>
    /\ pc' = "return_None"
    /\ UNCHANGED <<toolVars, auxVars, puzzle_data, queue, visited, current_pieces, move_history,
                   possible_moves, ret, total_configurations, genVars>>

HmNext ==
    \/ HmCountValidArrangements
    \/ HmCountSupernodeArrangements
    \/ HmKeyError
    \/ HmBfsCall
    \/ HmBfsSkip
    \/ HmBfsReturnPath
    \/ HmBfsExpand
    \/ HmBfsReturnNone

SpecHeatmap == Init /\ [][HmNext]_vars

----------------------------------------------------------------------------
(* The goal tests of the searches, applied to one target piece.              *)

\* graph/getToEnd.py, lines 199-206: the footprint of the piece covers the
\* cell (rows - 1, 0).  height and width are the dimensions of the piece type.
gte_target_piece_in_bottom_left(piece, rows, cols) ==
    LET height == hm_get_piece_dimensions(piece)[1]
        width == hm_get_piece_dimensions(piece)[2]
        occupied_cells == {<<piece.row + r, piece.col + c>> :
                              r \in 0..(height - 1), c \in 0..(width - 1)}
    IN <<rows - 1, 0>> \in occupied_cells

\* The in-bounds target pieces of the shapes the three scripts share.
GoalTestInputs ==
    UNION { {[piece |-> p, rows |-> g[1], cols |-> g[2]] :
                p \in {q \in PiecesAt(PieceLabels[1], HmTypes, g[1], g[2]) :
                          BoardInvariant(<<q>>, g[1], g[2])}} :
            g \in Grids }

\* The goal tests of the four searches on the target piece of a dequeued state.
GoalTestCall ==
    /\ pc = "main"
    /\ args' \in GoalTestInputs
    /\ result' = [heatmap |-> hm_goal_test(args'.piece, args'.rows),
                  shortestMoves |-> sm_goal_test(args'.piece, args'.rows),
                  simpleShortestMoves |-> ssm_goal_test(args'.piece, args'.rows),
                  getToEnd |-> gte_target_piece_in_bottom_left(args'.piece, args'.rows,
                                                               args'.cols)]
    /\ pc' = "goal_tested"
    /\ UNCHANGED <<searchVars, puzzle_board, puzzle_app, tk_after>>

SpecGoalTests == Init /\ [][GoalTestCall]_vars

----------------------------------------------------------------------------
(* March7/connectedComponents.py and graph/hyperNodeOnly.py: hyper-nodes as  *)
(* sets of placements, a placement being the set of cells of one domino.     *)

\* hyperNodeOnly.count_valid_arrangements, lines 20-58: the arrangements of
\* num_1x2 horizontal and num_2x1 vertical dominoes, each the frozenset of its
\* placements.
hno_count_valid_arrangements(rows, cols, num_1x2, num_2x1) ==
    LET combs == Product(combinations(sm_placements_h(rows, cols), num_1x2),
                         combinations(sm_placements_v(rows, cols), num_2x1))
    IN { {{pl[1], pl[2]} : pl \in Elements(combs[k][1] \o combs[k][2])} :
            k \in {i \in 1..Len(combs) :
                     sm_placements_valid(combs[i][1] \o combs[i][2], {})} }

\* connectedComponents.is_one_move_away, lines 45-56 (the test of
\* hyperNodeOnly.build_hypernode_graph, lines 71-73): the symmetric difference
\* of the two sets of placements has two elements.
is_one_move_away(state_a, state_b) ==
    LET diff == (state_a \ state_b) \cup (state_b \ state_a)
    IN Cardinality(diff) = 2

\* The pairs of hyper-nodes of one board build_hypernode_graph compares.
IsOneMoveAwayCall ==
    /\ pc = "main"
    /\ \E g \in Grids : \E num_1x2, num_2x1 \in 0..MaxPieces :
       \E hypernodes \in {hno_count_valid_arrangements(g[1], g[2], num_1x2, num_2x1)} :
       \E state_a, state_b \in hypernodes :
          /\ num_1x2 + num_2x1 \in 1..MaxPieces
          /\ state_a # state_b
          /\ args' = [state_a |-> state_a, state_b |-> state_b]
          /\ result' = is_one_move_away(state_a, state_b)
    /\ pc' = "compared"
    /\ UNCHANGED <<searchVars, puzzle_board, puzzle_app, tk_after>>

SpecOneMoveAway == Init /\ [][IsOneMoveAwayCall]_vars

----------------------------------------------------------------------------
(* March7/visualizeHypernodes.py: hyper-nodes read from boards of tokens.    *)

HnMaxCells == 4
HnTokens == {"A", "B"}
HnGrids == {g \in (1..HnMaxCells) \X (1..HnMaxCells) : g[1] * g[2] <= HnMaxCells}
\* The boards of hyperNode.json: a token or "empty" in every cell.
HnBoards(rows, cols) == [GridCells(rows, cols) -> HnTokens \cup {"empty"}]

\* extract_pieces.dfs, lines 42-56: the cells of the region of `token' around
\* the cells of `region', sorted.
RECURSIVE hn_dfs(_, _, _)
hn_dfs(board, token, region) ==
    LET grown == region \cup
                 {n \in DOMAIN board :
                    /\ board[n] = token
                    /\ \E c \in region : \E k \in 1..Len(MOVES) :
                          n = <<c[1] + MOVES[k].dr, c[2] + MOVES[k].dc>>}
    IN IF grown = region THEN RowMajor(region) ELSE hn_dfs(board, token, grown)

\* extract_pieces, lines 29-64: the scan of the cells row by row,
\* seen_cells the cells marked in `visited'.
RECURSIVE hn_extract_loop(_, _, _)
hn_extract_loop(board, seen_cells, pieces) ==
    LET todo == {c \in DOMAIN board : board[c] # "empty" /\ c \notin seen_cells}
    IN IF todo = {} THEN pieces
       ELSE LET rc == RowMajor(todo)[1]
                token == board[rc]
                cells == hn_dfs(board, token, {rc})
            IN hn_extract_loop(board, seen_cells \cup Elements(cells),
                               Append(pieces, [token |-> token, cells |-> cells]))

extract_pieces(board) == hn_extract_loop(board, {}, <<>>)

\* is_one_step_translation, lines 66-86, with offset = (row 0 of the sorted
\* lists); <<>> stands for (False, None), <<offset>> for (True, offset).
is_one_step_translation_AnyOffset(piece_from, piece_to) ==
    IF Len(piece_from) # Len(piece_to) THEN <<>>
    ELSE LET sorted_from == RowMajor(Elements(piece_from))
             sorted_to == RowMajor(Elements(piece_to))
             offset == <<sorted_to[1][1] - sorted_from[1][1],
                         sorted_to[1][2] - sorted_from[1][2]>>
         IN IF \E k \in 1..Len(sorted_from) :
                  <<sorted_to[k][1] - sorted_from[k][1],
                    sorted_to[k][2] - sorted_from[k][2]>> # offset
            THEN <<>>
            ELSE <<offset>>

is_one_step_translation(piece_from, piece_to) ==
    IF Len(piece_from) # Len(piece_to) THEN <<>>
    ELSE LET sorted_from == RowMajor(Elements(piece_from))
             sorted_to == RowMajor(Elements(piece_to))
             offset == <<sorted_to[1][1] - sorted_from[1][1],
                         sorted_to[1][2] - sorted_from[1][2]>>
             valid_offsets == {<<1, 0>>, <<-1, 0>>, <<0, 1>>, <<0, -1>>}
         IN IF \E k \in 1..Len(sorted_from) :
                  <<sorted_to[k][1] - sorted_from[k][1],
                    sorted_to[k][2] - sorted_from[k][2]>> # offset
            THEN <<>>
            ELSE IF offset \in valid_offsets THEN <<offset>> ELSE <<>>

\* get_move_info, lines 109-120: the matching loop over pieces_a from index i
\* on; changed_a is kept as a list, empty for None.
RECURSIVE gmi_match_loop(_, _, _, _)
gmi_match_loop(pieces_a, pieces_b, i, acc) ==
    IF i > Len(pieces_a) THEN acc
    ELSE LET p_a == pieces_a[i]
             matches == {j \in 1..Len(pieces_b) :
                           /\ j \notin acc.used_indices
                           /\ p_a.token = pieces_b[j].token
                           /\ p_a.cells = pieces_b[j].cells}
         IN IF matches # {}
            THEN LET j == CHOOSE m \in matches : \A o \in matches : m <= o
                 IN gmi_match_loop(pieces_a, pieces_b, i + 1,
                        [acc EXCEPT !.unchanged_count = @ + 1,
                                    !.used_indices = @ \cup {j}])
            ELSE gmi_match_loop(pieces_a, pieces_b, i + 1,
                        [acc EXCEPT !.changed_a = <<p_a>>])

\* get_move_info, lines 88-139; <<>> stands for None, <<info>> for the
\* dictionary.
get_move_info(state_a, state_b) ==
    LET pieces_a == state_a.pieces
        pieces_b == state_b.pieces
    IN IF Len(pieces_a) # Len(pieces_b) THEN <<>>
       ELSE LET m == gmi_match_loop(pieces_a, pieces_b, 1,
                        [unchanged_count |-> 0, changed_a |-> <<>>, used_indices |-> {}])
                unused == {j \in 1..Len(pieces_b) : j \notin m.used_indices}
                changed_b == IF unused = {} THEN <<>>
                             ELSE <<pieces_b[CHOOSE j \in unused : \A o \in unused : j <= o]>>
            IN IF m.unchanged_count # Len(pieces_a) - 1 \/ m.changed_a = <<>> \/ changed_b = <<>>
               THEN <<>>
               ELSE LET t == is_one_step_translation(m.changed_a[1].cells, changed_b[1].cells)
                    IN IF t = <<>> THEN <<>>
                       ELSE <<[token |-> m.changed_a[1].token,
                               moved_from |-> m.changed_a[1].cells,
                               moved_to |-> changed_b[1].cells,
                               offset |-> t[1]]>>

\* load_hypernodes, lines 12-27, and the comparison of build_hypernode_graph:
\* two boards of one size, their pieces computed from the boards.
GetMoveInfoCall ==
    /\ pc = "main"
    /\ \E g \in HnGrids : \E board_a, board_b \in HnBoards(g[1], g[2]) :
          /\ args' = [state_a |-> [board |-> board_a, pieces |-> extract_pieces(board_a)],
                      state_b |-> [board |-> board_b, pieces |-> extract_pieces(board_b)]]
          /\ result' = get_move_info(args'.state_a, args'.state_b)
    /\ pc' = "move_info"
    /\ UNCHANGED <<searchVars, puzzle_board, puzzle_app, tk_after>>

SpecMoveInfo == Init /\ [][GetMoveInfoCall]_vars

----------------------------------------------------------------------------
(* graph/dataStructConv.py (the same functions are in graph/threeTier.py):   *)
(* reachability of the goal from a super-node.                               *)

\* count_valid_arrangements, lines 19-46.
dsc_count_valid_arrangements(data) ==
    LET num_1x2 == Cardinality({i \in 1..Len(data.pieces) : data.pieces[i].piece_type = "1x2"})
        num_2x1 == Cardinality({i \in 1..Len(data.pieces) : data.pieces[i].piece_type = "2x1"})
    IN hno_count_valid_arrangements(data.rows, data.cols, num_1x2, num_2x1)

\* count_supernode_arrangements, lines 49-59: the combinations of four of the
\* cells no placement of the hyper-node covers, each as the set of its cells
\* (can_reach_solution is called on set(super_state)).
dsc_count_supernode_arrangements(state, data) ==
    LET total_cells == GridCells(data.rows, data.cols)
        occupied_cells == UNION state
        empty_spaces == total_cells \ occupied_cells
    IN IF Cardinality(empty_spaces) < NumBlocks THEN {}
       ELSE {s \in SUBSET empty_spaces : Cardinality(s) = NumBlocks}

\* can_reach_solution, lines 80-91: the loop over the queue, as the growth of
\* `visited' from the positions in `frontier' until the goal is taken from the
\* queue or the queue is empty.
RECURSIVE dsc_bfs(_, _, _, _, _)
dsc_bfs(frontier, seen, super_state, rows, cols) ==
    IF <<rows - 1, 0>> \in frontier THEN TRUE
    ELSE IF frontier = {} THEN FALSE
    ELSE LET new == {new_pos \in GridCells(rows, cols) :
                       /\ new_pos \notin seen
                       /\ new_pos \notin super_state
                       /\ \E current \in frontier : \E k \in 1..Len(MOVES) :
                             new_pos = <<current[1] + MOVES[k].dr, current[2] + MOVES[k].dc>>}
         IN dsc_bfs(new, seen \cup new, super_state, rows, cols)

\* can_reach_solution, lines 62-92 (threeTier.py, lines 73-107).
can_reach_solution(super_state, data) ==
    LET t == TargetIndex(data.pieces, data.target)
    IN IF t = 0 THEN FALSE
       ELSE LET target_pos == <<data.pieces[t].row, data.pieces[t].col>>
            IN dsc_bfs({target_pos}, {target_pos}, super_state, data.rows, data.cols)

\* build_hyper_super_structure, lines 95-116, for the puzzles of one target
\* piece and one call of can_reach_solution.
CanReachCall ==
    /\ pc = "main"
    /\ \E g \in Grids : \E target \in {PieceLabels[1], MissingLabel} :
       \E p \in PiecesAt(PieceLabels[1], HmTypes, g[1], g[2]) :
       \E data \in {[rows |-> g[1], cols |-> g[2], target |-> target, pieces |-> <<p>>]} :
       \E state \in dsc_count_valid_arrangements(data) :
       \E super_state \in dsc_count_supernode_arrangements(state, data) :
          /\ BoardInvariant(<<p>>, g[1], g[2])
          /\ args' = [puzzle_data |-> data, hyper_state |-> state, super_state |-> super_state]
          /\ result' = can_reach_solution(super_state, data)
    /\ pc' = "can_reach"
    /\ UNCHANGED <<searchVars, puzzle_board, puzzle_app, tk_after>>

SpecCanReach == Init /\ [][CanReachCall]_vars

----------------------------------------------------------------------------
(* hyperNodeCalc.py: the placements of two horizontal dominoes and one       *)
(* vertical domino on the 3x4 board.                                         *)

board_rows == 3
board_cols == 4

\* generate_domino_placements, lines 1-15: (horizontal_positions,
\* vertical_positions), each placement a pair of cells.
generate_domino_placements ==
    LET hs == Product(Range(board_rows), Range(board_cols - 1))
        vs == Product(Range(board_rows - 1), Range(board_cols))
    IN << [k \in 1..Len(hs) |-> << <<hs[k][1], hs[k][2]>>, <<hs[k][1], hs[k][2] + 1>> >>],
          [k \in 1..Len(vs) |-> << <<vs[k][1], vs[k][2]>>, <<vs[k][1] + 1, vs[k][2]>> >>] >>

\* Lines 30-38 without the test of H2 against H1.
ep_accepts_NoH1Check(v, h1, h2, i, j) ==
    /\ j # i
    /\ Elements(v) \cap Elements(h2) = {}

\* enumerate_placements, lines 30-38: the tests of the innermost loop.
ep_accepts(v, h1, h2, i, j) ==
    /\ j # i
    /\ Elements(v) \cap Elements(h2) = {}
    /\ Elements(h1) \cap Elements(h2) = {}

\* The loop indices after the iteration (v, i, j) of the innermost loop.
ep_advance(a) ==
    LET horizontal == generate_domino_placements[1]
    IN IF a.j < Len(horizontal) THEN [a EXCEPT !.j = @ + 1]
       ELSE IF a.i < Len(horizontal) THEN [a EXCEPT !.i = @ + 1, !.j = 1]
       ELSE [v |-> a.v + 1, i |-> 1, j |-> 1]

\* enumerate_placements, lines 17-19.
EpCall ==
    /\ pc = "main"
    /\ args' = [v |-> 1, i |-> 1, j |-> 1]
    /\ result' = <<>>
    /\ pc' = "enumerate_placements"
    /\ UNCHANGED <<searchVars, puzzle_board, puzzle_app, tk_after>>

\* Lines 23-27: H1 overlaps V, the loop goes on to the next H1.
EpSkipH1 ==
    /\ pc = "enumerate_placements"
    /\ args.v <= Len(generate_domino_placements[2])
    /\ Elements(generate_domino_placements[2][args.v])
          \cap Elements(generate_domino_placements[1][args.i]) # {}
    /\ args' = ep_advance([args EXCEPT !.j = Len(generate_domino_placements[1])])
    /\ UNCHANGED <<searchVars, pc, result, puzzle_board, puzzle_app, tk_after>>

\* Lines 28-43: one iteration of the loop over H2.
EpStep ==
    /\ pc = "enumerate_placements"
    /\ args.v <= Len(generate_domino_placements[2])
    /\ LET v == generate_domino_placements[2][args.v]
           h1 == generate_domino_placements[1][args.i]
           h2 == generate_domino_placements[1][args.j]
       IN /\ Elements(v) \cap Elements(h1) = {}
          /\ result' = IF ep_accepts(v, h1, h2, args.i, args.j)
                       THEN Append(result, [H1 |-> h1, H2 |-> h2, V |-> v])
                       ELSE result
    /\ args' = ep_advance(args)
    /\ UNCHANGED <<searchVars, pc, puzzle_board, puzzle_app, tk_after>>

\* Line 44.
EpReturn ==
    /\ pc = "enumerate_placements"
    /\ args.v > Len(generate_domino_placements[2])
    /\ pc' = "return_possibilities"
    /\ UNCHANGED <<searchVars, args, result, puzzle_board, puzzle_app, tk_after>>

EpNext == EpCall \/ EpSkipH1 \/ EpStep \/ EpReturn

SpecEnumerate == Init /\ [][EpNext]_vars

\* getToEnd.count_valid_arrangements, lines 106-141, as the set of the
\* arrangements of the list it returns.
gte_count_valid_arrangements(data) ==
    LET num_1x2 == Cardinality({i \in 1..Len(data.pieces) : data.pieces[i].piece_type = "1x2"})
        num_2x1 == Cardinality({i \in 1..Len(data.pieces) : data.pieces[i].piece_type = "2x1"})
    IN hno_count_valid_arrangements(data.rows, data.cols, num_1x2, num_2x1)

----------------------------------------------------------------------------
(* earlyWorkings/board.py: PuzzleBoard.  puzzle_board holds the fields of    *)
(* the instance: rows, cols, pieces (the dict, as the list of its Piece      *)
(* values in insertion order), board (piece id per cell, <<>> for None),     *)
(* empties, move_count, target_piece_id and selected_piece_id (<<>> for      *)
(* None, <<id>> otherwise).  Rows count from the bottom.                     *)

MaxMoveCount == 3

\* The shapes of the pieces as (width, height); the last one is not handled
\* by can_move and move_piece.
BdShapes == {<<1, 1>>, <<2, 1>>, <<1, 2>>, <<2, 2>>}

\* Piece.cells, lines 24-34.
bd_cells(p) == {<<p.y + dy, p.x + dx>> : dy \in 0..(p.height - 1), dx \in 0..(p.width - 1)}

\* PuzzleBoard.find_empties, lines 92-101.
bd_find_empties(rows, cols, pieces) ==
    LET covered == UNION {bd_cells(pieces[i]) : i \in 1..Len(pieces)}
        all_cells == GridCells(rows, cols)
    IN all_cells \ covered

\* PuzzleBoard.rebuild_board, lines 72-90: the id of the last piece covering a
\* cell, None on the cells of empties.
bd_rebuild_board(rows, cols, pieces, empties) ==
    [rc \in GridCells(rows, cols) |->
        LET on == {i \in 1..Len(pieces) : rc \in bd_cells(pieces[i])}
        IN IF on = {} \/ rc \in empties THEN <<>>
           ELSE <<pieces[CHOOSE i \in on : \A j \in on : j <= i].id>>]

\* PuzzleBoard.can_move, lines 103-155.
bd_can_move(empties, piece, direction) ==
    IF piece.width = 1 /\ piece.height = 1 THEN
        CASE direction = "up" -> <<piece.y + 1, piece.x>> \in empties
          [] direction = "down" -> <<piece.y - 1, piece.x>> \in empties
          [] direction = "left" -> <<piece.y, piece.x - 1>> \in empties
          [] direction = "right" -> <<piece.y, piece.x + 1>> \in empties
          [] OTHER -> FALSE
    ELSE IF piece.width = 2 /\ piece.height = 1 THEN
        CASE direction = "left" -> <<piece.y, piece.x - 1>> \in empties
          [] direction = "right" -> <<piece.y, piece.x + 2>> \in empties
          [] direction = "up" -> /\ <<piece.y + 1, piece.x>> \in empties
                                 /\ <<piece.y + 1, piece.x + 1>> \in empties
          [] direction = "down" -> /\ <<piece.y - 1, piece.x>> \in empties
                                   /\ <<piece.y - 1, piece.x + 1>> \in empties
          [] OTHER -> FALSE
    ELSE IF piece.width = 1 /\ piece.height = 2 THEN
        CASE direction = "up" -> <<piece.y + 2, piece.x>> \in empties
          [] direction = "down" -> <<piece.y - 1, piece.x>> \in empties
          [] direction = "left" -> /\ <<piece.y, piece.x - 1>> \in empties
                                   /\ <<piece.y + 1, piece.x - 1>> \in empties
          [] direction = "right" -> /\ <<piece.y, piece.x + 1>> \in empties
                                    /\ <<piece.y + 1, piece.x + 1>> \in empties
          [] OTHER -> FALSE
    ELSE FALSE

\* move_piece, lines 169-270: the piece after the move.
bd_moved(piece, direction) ==
    CASE direction = "up" -> [piece EXCEPT !.y = @ + 1]
      [] direction = "down" -> [piece EXCEPT !.y = @ - 1]
      [] direction = "left" -> [piece EXCEPT !.x = @ - 1]
      [] direction = "right" -> [piece EXCEPT !.x = @ + 1]

\* move_piece, lines 169-270, with the freed cells left out of empties.
bd_empties_after_NoFreed(empties, piece, direction) ==
    LET old_y == piece.y
        old_x == piece.x
    IN IF piece.width = 1 /\ piece.height = 1 THEN
           empties \ {<<bd_moved(piece, direction).y, bd_moved(piece, direction).x>>}
       ELSE IF piece.width = 2 /\ piece.height = 1 THEN
           CASE direction = "left" -> empties \ {<<old_y, old_x - 1>>}
             [] direction = "right" -> empties \ {<<old_y, old_x + 2>>}
             [] direction = "up" -> empties \ {<<old_y + 1, old_x>>, <<old_y + 1, old_x + 1>>}
             [] direction = "down" -> empties \ {<<old_y - 1, old_x>>, <<old_y - 1, old_x + 1>>}
       ELSE
           CASE direction = "up" -> empties \ {<<old_y + 2, old_x>>}
             [] direction = "down" -> empties \ {<<old_y - 1, old_x>>}
             [] direction = "left" -> empties \ {<<old_y, old_x - 1>>, <<old_y + 1, old_x - 1>>}
             [] direction = "right" -> empties \ {<<old_y, old_x + 1>>, <<old_y + 1, old_x + 1>>}

\* move_piece, lines 169-270: empties after the move of `piece' (its position
\* before the move).
bd_empties_after(empties, piece, direction) ==
    LET old_y == piece.y
        old_x == piece.x
    IN IF piece.width = 1 /\ piece.height = 1 THEN
           (empties \ {<<bd_moved(piece, direction).y, bd_moved(piece, direction).x>>})
              \cup {<<old_y, old_x>>}
       ELSE IF piece.width = 2 /\ piece.height = 1 THEN
           CASE direction = "left" ->
                  (empties \ {<<old_y, old_x - 1>>}) \cup {<<old_y, old_x + 1>>}
             [] direction = "right" ->
                  (empties \ {<<old_y, old_x + 2>>}) \cup {<<old_y, old_x>>}
             [] direction = "up" ->
                  (empties \cup {<<old_y, old_x>>, <<old_y, old_x + 1>>})
                     \ {<<old_y + 1, old_x>>, <<old_y + 1, old_x + 1>>}
             [] direction = "down" ->
                  (empties \cup {<<old_y, old_x>>, <<old_y, old_x + 1>>})
                     \ {<<old_y - 1, old_x>>, <<old_y - 1, old_x + 1>>}
       ELSE
           CASE direction = "up" ->
                  (empties \ {<<old_y + 2, old_x>>}) \cup {<<old_y, old_x>>}
             [] direction = "down" ->
                  (empties \ {<<old_y - 1, old_x>>}) \cup {<<old_y + 1, old_x>>}
             [] direction = "left" ->
                  (empties \cup {<<old_y, old_x>>, <<old_y + 1, old_x>>})
                     \ {<<old_y, old_x - 1>>, <<old_y + 1, old_x - 1>>}
             [] direction = "right" ->
                  (empties \cup {<<old_y, old_x>>, <<old_y + 1, old_x>>})
                     \ {<<old_y, old_x + 1>>, <<old_y + 1, old_x + 1>>}

\* The index of the piece with the given id in self.pieces, 0 if there is none.
bd_index(pieces, piece_id) ==
    IF \E i \in 1..Len(pieces) : pieces[i].id = piece_id
    THEN CHOOSE i \in 1..Len(pieces) : pieces[i].id = piece_id
    ELSE 0

\* PuzzleBoard.move_piece, lines 157-275: the instance after the call and the
\* value returned.
bd_move_piece(b, piece_id, direction) ==
    LET k == bd_index(b.pieces, piece_id)
    IN IF k = 0 THEN [board |-> b, ret |-> FALSE]
       ELSE IF ~bd_can_move(b.empties, b.pieces[k], direction)
            THEN [board |-> b, ret |-> FALSE]
       ELSE LET pieces == [b.pieces EXCEPT ![k] = bd_moved(@, direction)]
                empties == bd_empties_after(b.empties, b.pieces[k], direction)
            IN [board |-> [b EXCEPT !.pieces = pieces,
                                    !.empties = empties,
                                    !.board = bd_rebuild_board(b.rows, b.cols, pieces, empties)],
                ret |-> TRUE]

\* move_and_check, lines 406-426, counting every call.
bd_move_and_check_CountAll(b, direction) ==
    IF b.selected_piece_id = <<>> THEN [board |-> b, ret |-> FALSE]
    ELSE LET r == bd_move_piece(b, b.selected_piece_id[1], direction)
         IN [board |-> [r.board EXCEPT !.move_count = @ + 1], ret |-> r.ret]

\* PuzzleBoard.move_and_check, lines 406-426: the instance after the call and
\* the value move_piece returned.
bd_move_and_check(b, direction) ==
    IF b.selected_piece_id = <<>> THEN [board |-> b, ret |-> FALSE]
    ELSE LET r == bd_move_piece(b, b.selected_piece_id[1], direction)
         IN IF r.ret THEN [board |-> [r.board EXCEPT !.move_count = @ + 1], ret |-> TRUE]
            ELSE r

\* The lists of n pieces with ids PieceLabels[1..n] inside the grid, no two
\* on one cell.
RECURSIVE BdPieceLists(_, _, _)
BdPieceLists(rows, cols, n) ==
    IF n = 0 THEN {<<>>}
    ELSE {Append(ps, p) :
            <<ps, p>> \in {x \in BdPieceLists(rows, cols, n - 1) \X
                                 {[id |-> PieceLabels[n], x |-> a[2], y |-> a[1],
                                   width |-> s[1], height |-> s[2]] :
                                      a \in GridCells(rows, cols), s \in BdShapes} :
                             /\ bd_cells(x[2]) \subseteq GridCells(rows, cols)
                             /\ \A i \in 1..Len(x[1]) : bd_cells(x[1][i]) \cap bd_cells(x[2]) = {}}}

\* PuzzleBoard.__init__, lines 37-64, on the pieces of the __main__ block's
\* kind: the target is the first piece.
BoardConstruct ==
    /\ pc = "main"
    /\ \E g \in Grids : \E n \in 1..MaxPieces : \E pieces \in BdPieceLists(g[1], g[2], n) :
          puzzle_board' = [rows |-> g[1], cols |-> g[2], pieces |-> pieces,
                           move_count |-> 0,
                           board |-> bd_rebuild_board(g[1], g[2], pieces, {}),
                           empties |-> bd_find_empties(g[1], g[2], pieces),
                           target_piece_id |-> PieceLabels[1],
                           selected_piece_id |-> <<>>]
    /\ pc' = "mainloop"
    /\ UNCHANGED <<searchVars, args, result, puzzle_app, tk_after>>

\* PuzzleBoard.on_canvas_click, lines 375-391.
BoardOnCanvasClick ==
    /\ pc = "mainloop"
    /\ \E rc \in GridCells(puzzle_board.rows, puzzle_board.cols) :
          /\ args' = [handler |-> "on_canvas_click", row |-> rc[1], col |-> rc[2]]
          /\ puzzle_board' = [puzzle_board EXCEPT !.selected_piece_id = puzzle_board.board[rc]]
    /\ UNCHANGED <<searchVars, pc, result, puzzle_app, tk_after>>

\* PuzzleBoard.on_key_press, lines 393-404, with move_and_check.
BoardOnKeyPress ==
    /\ pc = "mainloop"
    /\ puzzle_board.move_count < MaxMoveCount
    /\ \E keysym \in {"Up", "Down", "Left", "Right"} :
          LET direction == CASE keysym = "Up" -> "up" [] keysym = "Down" -> "down"
                             [] keysym = "Left" -> "left" [] keysym = "Right" -> "right"
              b == IF puzzle_board.selected_piece_id = <<>>
                   THEN [puzzle_board EXCEPT !.selected_piece_id = <<puzzle_board.target_piece_id>>]
                   ELSE puzzle_board
              r == bd_move_and_check(b, direction)
          IN /\ args' = [handler |-> "on_key_press", keysym |-> keysym]
             /\ puzzle_board' = r.board
             /\ result' = r.ret
    /\ UNCHANGED <<searchVars, pc, puzzle_app, tk_after>>

BoardNext == BoardConstruct \/ BoardOnCanvasClick \/ BoardOnKeyPress

SpecBoard == Init /\ [][BoardNext]_vars

----------------------------------------------------------------------------
(* workingBoard/combined.py: PuzzleApp.  puzzle_app holds the fields of the  *)
(* instance: mode, setup_rows, setup_cols, pieces (the Piece objects as      *)
(* records, in list order), next_label_index, setup_board, initial_positions,*)
(* selected_piece (<<>> for None, <<label>> otherwise), move_count, timer_id *)
(* (<<>> for None, <<id>> otherwise), control_frames (the control frames not *)
(* destroyed) and control_frame_alive (self.control_frame is one of them).   *)
(* tk_after holds the callbacks scheduled with root.after: next_id and the   *)
(* set pending of the ids not yet fired or cancelled.  result holds what the *)
(* last handler wrote to puzzle_config.json, <<>> if nothing.  Rows count    *)
(* from the top.                                                             *)

AppMaxPieces == 2
AppMaxMoveCount == 1
AppMaxLabels == 2
MaxAfterIds == 2
AppLabels == <<"a", "b", "c", "d", "e">>
\* The palette buttons pressed.
AppTypes == {"1x1", "2x1"}
\* The texts of the Rows and Cols entries when a button reads them.
AppSizes == {<<3, 4>>, <<2, 2>>}
\* The cells a drag or a click ends on.
AppDropCells == (0..1) \X (0..1)

\* PuzzleApp.update_setup_board, lines 232-236: the last piece of the list on
\* every covered cell.
app_update_setup_board(pieces) ==
    [cell \in UNION {Footprint(pieces[i]) : i \in 1..Len(pieces)} |->
        LET on == {i \in 1..Len(pieces) : cell \in Footprint(pieces[i])}
        IN pieces[CHOOSE i \in on : \A j \in on : j <= i].label]

\* PuzzleApp.is_free, lines 238-244.
app_is_free(setup_board, moving_piece, row, col) ==
    LET new_cells == Footprint([moving_piece EXCEPT !.row = row, !.col = col])
    IN \A cell \in new_cells :
          cell \in DOMAIN setup_board => setup_board[cell] = moving_piece.label

\* max(0, min(candidate, limit)) of Piece.on_drop, lines 86-87.
app_clamp(candidate, limit) ==
    LET m == IF candidate < limit THEN candidate ELSE limit
    IN IF m > 0 THEN m ELSE 0

\* Piece.on_drop, lines 81-95, for the piece at index k.
app_on_drop(app, k, row, col) ==
    LET piece == app.pieces[k]
        candidate_row == app_clamp(row, app.setup_rows - Dims(piece.piece_type)[1])
        candidate_col == app_clamp(col, app.setup_cols - Dims(piece.piece_type)[2])
        pieces == IF app_is_free(app.setup_board, piece, candidate_row, candidate_col)
                  THEN [app.pieces EXCEPT ![k] = [@ EXCEPT !.row = candidate_row, !.col = candidate_col]]
                  ELSE app.pieces
    IN [app EXCEPT !.pieces = pieces, !.setup_board = app_update_setup_board(pieces)]

\* PuzzleApp.add_piece, lines 246-251.
app_add_piece(app, piece_type) ==
    LET label == AppLabels[app.next_label_index + 1]
        pieces == Append(app.pieces, [label |-> label, piece_type |-> piece_type, row |-> 0, col |-> 0])
    IN [app EXCEPT !.next_label_index = @ + 1,
                   !.pieces = pieces,
                   !.setup_board = app_update_setup_board(pieces)]

\* The first piece of the list covering the cell, 0 if there is none
\* (delete_piece_click, lines 260-265; on_canvas_click, lines 442-447).
app_piece_at(pieces, row, col) ==
    LET on == {i \in 1..Len(pieces) : <<row, col>> \in Footprint(pieces[i])}
    IN IF on = {} THEN 0 ELSE CHOOSE i \in on : \A j \in on : i <= j

\* PuzzleApp.delete_piece_click, lines 257-273.
app_delete_piece_click(app, row, col) ==
    LET k == app_piece_at(app.pieces, row, col)
        pieces == [i \in 1..(Len(app.pieces) - 1) |->
                      IF i < k THEN app.pieces[i] ELSE app.pieces[i + 1]]
    IN IF k = 0 THEN app
       ELSE [app EXCEPT !.pieces = pieces,
                        !.setup_board = app_update_setup_board(pieces)]

\* PuzzleApp.set_board_size, lines 211-222.
app_set_board_size(app, new_rows, new_cols) ==
    [app EXCEPT !.setup_rows = new_rows, !.setup_cols = new_cols,
                !.setup_board = app_update_setup_board(app.pieces)]

\* PuzzleApp.save_configuration, lines 358-372: the data written to
\* puzzle_config.json (no target is set).
app_save_configuration(app) ==
    [rows |-> app.setup_rows, cols |-> app.setup_cols, pieces |-> app.pieces]

\* PuzzleApp.update_timer, lines 499-502: timer_label.config raises when the
\* label has been destroyed with its control frame.
app_update_timer(s) ==
    IF ~s.app.control_frame_alive THEN s
    ELSE [app |-> [s.app EXCEPT !.timer_id = <<s.tk.next_id>>],
          tk |-> [next_id |-> s.tk.next_id + 1, pending |-> s.tk.pending \cup {s.tk.next_id}]]

\* after_cancel(self.timer_id) behind `if self.timer_id', lines 510-511 and
\* 516-517.
app_cancel_timer(s) ==
    IF s.app.timer_id = <<>> THEN s
    ELSE [s EXCEPT !.tk.pending = @ \ {s.app.timer_id[1]}]

\* PuzzleApp.lock_board, lines 386-402, with prepare_solve_mode, lines 407-427.
app_lock_board(s, rows, cols) ==
    LET app == [s.app EXCEPT !.setup_rows = rows, !.setup_cols = cols,
                             !.setup_board = app_update_setup_board(s.app.pieces),
                             !.initial_positions =
                                 [l \in {s.app.pieces[i].label : i \in 1..Len(s.app.pieces)} |->
                                     LET p == s.app.pieces[CHOOSE i \in 1..Len(s.app.pieces) :
                                                             /\ s.app.pieces[i].label = l
                                                             /\ \A j \in (i + 1)..Len(s.app.pieces) :
                                                                   s.app.pieces[j].label # l]
                                     IN <<p.row, p.col>>],
                             !.mode = "solve",
                             !.move_count = 0,
                             !.control_frames = @ + 1,
                             !.control_frame_alive = TRUE]
    IN app_update_timer([s EXCEPT !.app = app])

\* PuzzleApp.on_canvas_click, lines 439-452.
app_on_canvas_click(app, row, col) ==
    LET k == app_piece_at(app.pieces, row, col)
    IN [app EXCEPT !.selected_piece = IF k = 0 THEN <<>> ELSE <<app.pieces[k].label>>]

\* PuzzleApp.try_move, lines 474-497: the piece moved, or the piece as it was
\* when the move fails.
app_try_move(app, piece, direction) ==
    LET new_row == CASE direction = "up" -> piece.row - 1
                     [] direction = "down" -> piece.row + 1
                     [] OTHER -> piece.row
        new_col == CASE direction = "left" -> piece.col - 1
                     [] direction = "right" -> piece.col + 1
                     [] OTHER -> piece.col
        board == app_update_setup_board(app.pieces)
        new_cells == Footprint([piece EXCEPT !.row = new_row, !.col = new_col])
    IN IF \/ new_row < 0 \/ new_col < 0
          \/ new_row + Dims(piece.piece_type)[1] > app.setup_rows
          \/ new_col + Dims(piece.piece_type)[2] > app.setup_cols
       THEN piece
       ELSE IF \E cell \in new_cells :
                  /\ cell \in DOMAIN board
                  /\ board[cell] # piece.label
            THEN piece
            ELSE [piece EXCEPT !.row = new_row, !.col = new_col]

\* PuzzleApp.on_key_press, lines 464-472, with try_move.
app_on_key_press(app, direction) ==
    IF app.selected_piece = <<>> THEN app
    ELSE LET k == CHOOSE i \in 1..Len(app.pieces) : app.pieces[i].label = app.selected_piece[1]
             moved == app_try_move(app, app.pieces[k], direction)
             pieces == [app.pieces EXCEPT ![k] = moved]
         IN IF moved = app.pieces[k] THEN app
            ELSE [app EXCEPT !.pieces = pieces,
                             !.setup_board = app_update_setup_board(pieces),
                             !.move_count = @ + 1]

\* PuzzleApp.reset_puzzle, lines 504-513: move_counter_label.config raises
\* when the label has been destroyed, after the pieces and move_count are set.
app_reset_puzzle(s) ==
    LET pieces == [i \in 1..Len(s.app.pieces) |->
                      LET init_pos == IF s.app.pieces[i].label \in DOMAIN s.app.initial_positions
                                      THEN s.app.initial_positions[s.app.pieces[i].label]
                                      ELSE <<0, 0>>
                      IN [s.app.pieces[i] EXCEPT !.row = init_pos[1], !.col = init_pos[2]]]
        app == [s.app EXCEPT !.pieces = pieces, !.move_count = 0]
    IN IF ~app.control_frame_alive THEN [s EXCEPT !.app = app]
       ELSE app_update_timer(app_cancel_timer([s EXCEPT !.app = app]))

\* PuzzleApp.back_to_menu, lines 515-527.
app_back_to_menu(s) ==
    LET c == app_cancel_timer(s)
    IN [c EXCEPT !.app.control_frames = IF s.app.control_frame_alive THEN @ - 1 ELSE @,
                 !.app.control_frame_alive = FALSE,
                 !.app.mode = "setup"]

\* PuzzleApp.__init__, lines 155-172.
AppConstruct ==
    /\ pc = "main"
    /\ puzzle_app' = [mode |-> "setup", setup_rows |-> 3, setup_cols |-> 4,
                      pieces |-> <<>>, next_label_index |-> 0,
                      setup_board |-> app_update_setup_board(<<>>),
                      initial_positions |-> <<>>,
                      selected_piece |-> <<>>,
                      move_count |-> 0, timer_id |-> <<>>,
                      control_frames |-> 0, control_frame_alive |-> FALSE]
    /\ tk_after' = [next_id |-> 1, pending |-> {}]
    /\ args' = [handler |-> "__init__"]
    /\ pc' = "app_mainloop"
    /\ UNCHANGED <<searchVars, result, puzzle_board>>

\* The palette button Add <piece_type>, enabled in setup mode.
AppAddPiece ==
    /\ pc = "app_mainloop"
    /\ puzzle_app.mode = "setup"
    /\ Len(puzzle_app.pieces) < AppMaxPieces
    /\ puzzle_app.next_label_index < AppMaxLabels
    /\ \E piece_type \in AppTypes :
          /\ args' = [handler |-> "add_piece"]
          /\ puzzle_app' = app_add_piece(puzzle_app, piece_type)
    /\ result' = <<>>
    /\ UNCHANGED <<searchVars, pc, puzzle_board, tk_after>>

\* A piece dragged and dropped; its events are bound in setup mode.
AppOnDrop ==
    /\ pc = "app_mainloop"
    /\ puzzle_app.mode = "setup"
    /\ \E k \in 1..Len(puzzle_app.pieces) : \E rc \in AppDropCells :
          /\ args' = [handler |-> "on_drop"]
          /\ puzzle_app' = app_on_drop(puzzle_app, k, rc[1], rc[2])
    /\ result' = <<>>
    /\ UNCHANGED <<searchVars, pc, puzzle_board, tk_after>>

\* The palette button Delete Piece and the click that follows.
AppDeletePieceClick ==
    /\ pc = "app_mainloop"
    /\ puzzle_app.mode = "setup"
    /\ \E rc \in AppDropCells :
          /\ args' = [handler |-> "delete_piece_click"]
          /\ puzzle_app' = app_delete_piece_click(puzzle_app, rc[1], rc[2])
    /\ result' = <<>>
    /\ UNCHANGED <<searchVars, pc, puzzle_board, tk_after>>

\* The button Set Board Size of the top frame.
AppSetBoardSize ==
    /\ pc = "app_mainloop"
    /\ \E size \in AppSizes :
          /\ args' = [handler |-> "set_board_size"]
          /\ puzzle_app' = app_set_board_size(puzzle_app, size[1], size[2])
    /\ result' = <<>>
    /\ UNCHANGED <<searchVars, pc, puzzle_board, tk_after>>

\* The palette button SAVE.
AppSaveConfiguration ==
    /\ pc = "app_mainloop"
    /\ puzzle_app.mode = "setup"
    /\ args' = [handler |-> "save_configuration"]
    /\ result' = app_save_configuration(puzzle_app)
    /\ UNCHANGED <<searchVars, pc, puzzle_board, puzzle_app, tk_after>>

\* The button LOCK BOARD of the top frame, which lock_board leaves enabled.
AppLockBoard ==
    /\ pc = "app_mainloop"
    /\ tk_after.next_id <= MaxAfterIds
    /\ \E size \in AppSizes :
          LET s == app_lock_board([app |-> puzzle_app, tk |-> tk_after], size[1], size[2])
          IN /\ args' = [handler |-> "lock_board"]
             /\ puzzle_app' = s.app
             /\ tk_after' = s.tk
    /\ result' = <<>>
    /\ UNCHANGED <<searchVars, pc, puzzle_board>>

\* A click on the canvas, bound to on_canvas_click in solve mode.
AppOnCanvasClick ==
    /\ pc = "app_mainloop"
    /\ puzzle_app.mode = "solve"
    /\ \E rc \in AppDropCells :
          /\ args' = [handler |-> "on_canvas_click"]
          /\ puzzle_app' = app_on_canvas_click(puzzle_app, rc[1], rc[2])
    /\ result' = <<>>
    /\ UNCHANGED <<searchVars, pc, puzzle_board, tk_after>>

\* An arrow key, bound to on_key_press in solve mode.
AppOnKeyPress ==
    /\ pc = "app_mainloop"
    /\ puzzle_app.mode = "solve"
    /\ puzzle_app.move_count < AppMaxMoveCount
    /\ \E direction \in {"up", "down", "left", "right"} :
          /\ args' = [handler |-> "on_key_press"]
          /\ puzzle_app' = app_on_key_press(puzzle_app, direction)
    /\ result' = <<>>
    /\ UNCHANGED <<searchVars, pc, puzzle_board, tk_after>>

\* The button Reset Puzzle of a control frame that has not been destroyed.
AppResetPuzzle ==
    /\ pc = "app_mainloop"
    /\ puzzle_app.control_frames > 0
    /\ tk_after.next_id <= MaxAfterIds \/ ~puzzle_app.control_frame_alive
    /\ LET s == app_reset_puzzle([app |-> puzzle_app, tk |-> tk_after])
       IN /\ args' = [handler |-> "reset_puzzle"]
          /\ puzzle_app' = s.app
          /\ tk_after' = s.tk
    /\ result' = <<>>
    /\ UNCHANGED <<searchVars, pc, puzzle_board>>

\* The button Main Menu of a control frame that has not been destroyed.
AppBackToMenu ==
    /\ pc = "app_mainloop"
    /\ puzzle_app.control_frames > 0
    /\ LET s == app_back_to_menu([app |-> puzzle_app, tk |-> tk_after])
       IN /\ args' = [handler |-> "back_to_menu"]
          /\ puzzle_app' = s.app
          /\ tk_after' = s.tk
    /\ result' = <<>>
    /\ UNCHANGED <<searchVars, pc, puzzle_board>>

\* A scheduled update_timer callback fires.
AppUpdateTimer ==
    /\ pc = "app_mainloop"
    /\ tk_after.next_id <= MaxAfterIds \/ ~puzzle_app.control_frame_alive
    /\ \E id \in tk_after.pending :
          LET s == app_update_timer([app |-> puzzle_app,
                                     tk |-> [tk_after EXCEPT !.pending = @ \ {id}]])
          IN /\ args' = [handler |-> "update_timer"]
             /\ puzzle_app' = s.app
             /\ tk_after' = s.tk
    /\ result' = <<>>
    /\ UNCHANGED <<searchVars, pc, puzzle_board>>

\* The handlers of the board editor, before the board is locked.
AppEditorNext ==
    \/ AppConstruct \/ AppAddPiece \/ AppOnDrop \/ AppDeletePieceClick
    \/ AppSetBoardSize \/ AppSaveConfiguration

SpecAppEditor == Init /\ [][AppEditorNext]_vars

\* The handlers that place pieces, the buttons LOCK BOARD, Reset Puzzle and
\* Main Menu, the handlers of solve mode and the timer.
AppNext ==
    \/ AppConstruct \/ AppAddPiece \/ AppOnDrop \/ AppLockBoard
    \/ AppOnCanvasClick \/ AppOnKeyPress \/ AppResetPuzzle \/ AppBackToMenu
    \/ AppUpdateTimer

SpecApp == Init /\ [][AppNext]_vars

----------------------------------------------------------------------------
(* Legal moves and distances, stated on footprints.                         *)

Shifted(p, m) == [p EXCEPT !.row = @ + m.dr, !.col = @ + m.dc]

\* Piece i may move one cell along m: the shifted footprint is inside the grid
\* and meets no cell of a different piece.
LegalMove(pieces, i, m, rows, cols) ==
    /\ Footprint(Shifted(pieces[i], m)) \subseteq GridCells(rows, cols)
    /\ \A j \in 1..Len(pieces) :
          j # i => Footprint(Shifted(pieces[i], m)) \cap Footprint(pieces[j]) = {}

LegalSuccessors(pieces, rows, cols) ==
    {[pieces EXCEPT ![i] = Shifted(pieces[i], MOVES[k])] :
        <<i, k>> \in {x \in (1..Len(pieces)) \X (1..Len(MOVES)) :
                        LegalMove(pieces, x[1], MOVES[x[2]], rows, cols)}}

HasTarget == \E i \in 1..Len(puzzle_data.pieces) : puzzle_data.pieces[i].label = puzzle_data.target

TargetOf(pieces) == pieces[CHOOSE i \in 1..Len(pieces) : pieces[i].label = puzzle_data.target]

\* The goal predicate of simpleShortestMoves: the target's footprint ends on the
\* bottom row and starts in column 0.
AtGoal(pieces) ==
    /\ TargetOf(pieces).col = 0
    /\ TargetOf(pieces).row + Dims(TargetOf(pieces).piece_type)[1] = puzzle_data.rows

\* Length of a shortest legal move sequence from a state of `frontier` (all at
\* distance k from the start) to a goal state; -1 when no goal state is reachable.
RECURSIVE ShortestDistance(_, _, _)
ShortestDistance(frontier, seen, k) ==
    IF \E s \in frontier : AtGoal(s) THEN k
    ELSE IF frontier = {} THEN -1
    ELSE LET next == UNION {LegalSuccessors(s, puzzle_data.rows, puzzle_data.cols) : s \in frontier}
                        \ seen
         IN ShortestDistance(next, seen \cup next, k + 1)

Manhattan(p, row, col) ==
    (IF p.row > row THEN p.row - row ELSE row - p.row)
    + (IF p.col > col THEN p.col - col ELSE col - p.col)

----------------------------------------------------------------------------
(* Claims about simpleShortestMoves.find_shortest_target_path.              *)

\* C3: the path returned by find_shortest_target_path has the length of a
\* shortest legal move sequence from the initial state to a goal state.
C3_ShortestPath ==
    pc = "return_path" =>
        Len(ret) = ShortestDistance({puzzle_data.pieces}, {puzzle_data.pieces}, 0)

\* A returned path that had to make a detour: longer than the target's
\* Manhattan distance to the goal cell.
C3_Witness ==
    /\ pc = "return_path"
    /\ Len(ret) >= 3
    /\ Len(ret) > Manhattan(TargetOf(puzzle_data.pieces),
                            puzzle_data.rows - Dims(TargetOf(puzzle_data.pieces).piece_type)[1], 0)

C7_Distinguishable ==
    pc = "return_empty" => ret # ssm_initial_entry(puzzle_data.pieces).move_history

\* C8: find_shortest_target_path terminates: a goal state is dequeued or the
\* frontier becomes empty and the no-solution result is returned.
C8_Terminates ==
    (pc = "loop" /\ HasTarget) ~> (pc \in {"return_path", "return_empty"})

\* The frontier emptied after several states had been explored.
C8_Witness ==
    /\ pc = "return_empty"
    /\ Cardinality(visited) >= 4

----------------------------------------------------------------------------
(* Claims about potentialMoves.py.                                          *)

\* The moves listed for the piece at index i, as (direction, new anchor).
ListedMoves(moves, pieces, i) ==
    {moves[pieces[i].label][k] : k \in 1..Len(moves[pieces[i].label])}

\* C4: get_all_possible_moves lists (direction, new anchor) for a piece if and
\* only if the piece's footprint shifted one cell in that direction lies within
\* the grid and meets no cell of a different piece.
C4_MovesExactlyLegal ==
    (pc = "loop" /\ current_pieces # <<>>) =>
        \A i \in 1..Len(current_pieces) : \A k \in 1..Len(MOVES) :
            (<<MOVES[k].direction, current_pieces[i].row + MOVES[k].dr,
               current_pieces[i].col + MOVES[k].dc>>
                \in ListedMoves(possible_moves, current_pieces, i))
            <=> LegalMove(current_pieces, i, MOVES[k], puzzle_data.rows, puzzle_data.cols)

\* A state with two pieces in which one piece has a move blocked by the other,
\* a move blocked by the border and a listed move.
C4_Witness ==
    /\ pc = "loop"
    /\ Len(current_pieces) = 2
    /\ \E i \in 1..2 : \E a, b, c \in 1..Len(MOVES) :
          /\ LegalMove(current_pieces, i, MOVES[a], puzzle_data.rows, puzzle_data.cols)
          /\ Footprint(Shifted(current_pieces[i], MOVES[b]))
                \subseteq GridCells(puzzle_data.rows, puzzle_data.cols)
          /\ ~LegalMove(current_pieces, i, MOVES[b], puzzle_data.rows, puzzle_data.cols)
          /\ ~(Footprint(Shifted(current_pieces[i], MOVES[c]))
                \subseteq GridCells(puzzle_data.rows, puzzle_data.cols))
          /\ Len(possible_moves[current_pieces[i].label]) >= 1

\* C5: every state the BFS of potentialMoves.py holds (dequeued or in the
\* frontier) has all pieces in bounds and pairwise disjoint.
C5_BfsKeepsInvariant ==
    pc # "main" =>
        /\ \A k \in 1..Len(queue) : BoardInvariant(queue[k], puzzle_data.rows, puzzle_data.cols)
        /\ current_pieces # <<>> =>
              BoardInvariant(current_pieces, puzzle_data.rows, puzzle_data.cols)

\* The frontier holds states reached by at least two moves.
C5_Witness ==
    /\ pc = "loop"
    /\ total_configurations >= 3
    /\ Len(queue) >= 2
    /\ Len(puzzle_data.pieces) = 2
    /\ \A k \in 1..Len(queue) : queue[k] # puzzle_data.pieces

----------------------------------------------------------------------------
(* Claims about shortestMoves.py.                                           *)

AllValid(states, data) ==
    \A k \in 1..Len(states) : BoardInvariant(states[k], data.rows, data.cols)

\* C1: for a configuration whose pieces are in bounds and non-overlapping,
\* every generated hyper-state and super-state has all pieces in bounds and
\* pairwise disjoint.
C1_GeneratedStatesValid ==
    BoardInvariant(puzzle_data.pieces, puzzle_data.rows, puzzle_data.cols) =>
        /\ AllValid(hyper_states, puzzle_data)
        /\ AllValid(super_states, puzzle_data)

\* C2: every state the BFS of shortestMoves.py enqueues from a valid initial
\* super-state satisfies the BoardState invariant.
C2_EnqueuedStatesValid ==
    (pc = "loop" /\ BoardInvariant(initial_pieces, puzzle_data.rows, puzzle_data.cols)) =>
        \A k \in 1..Len(queue) :
            BoardInvariant(queue[k].pieces, puzzle_data.rows, puzzle_data.cols)

\* The state covers every cell and no piece has a legal move.
FullyPacked(pieces, data) ==
    /\ BoardInvariant(pieces, data.rows, data.cols)
    /\ UNION {Footprint(pieces[i]) : i \in 1..Len(pieces)} = GridCells(data.rows, data.cols)
    /\ \A i \in 1..Len(pieces) : \A k \in 1..Len(MOVES) :
          ~LegalMove(pieces, i, MOVES[k], data.rows, data.cols)

\* C9: on a fully packed super-state with the target away from the goal the
\* search dequeues the initial state only (nothing is ever enqueued) and ends
\* with the no-solution outcome.
C9_PackedSearchExhausted ==
    (/\ pc \in {"loop", "return_path", "return_empty"}
     /\ FullyPacked(initial_pieces, puzzle_data)
     /\ TargetIndex(initial_pieces, puzzle_data.target) # 0
     /\ ~sm_goal_test(initial_pieces[TargetIndex(initial_pieces, puzzle_data.target)],
                      puzzle_data.rows))
    => /\ queue \in {<<>>, <<[pieces |-> initial_pieces, move_history |-> <<>>]>>}
       /\ pc # "return_path"

\* The dominoes of the configuration, by index.
DominoIndices == {i \in 1..Len(puzzle_data.pieces) :
                    puzzle_data.pieces[i].piece_type \in {"1x2", "2x1"}}

PlacedAt(i, anchor) == [puzzle_data.pieces[i] EXCEPT !.row = anchor[1], !.col = anchor[2]]

\* Every assignment of the dominoes to in-bounds anchors with pairwise disjoint
\* footprints.
DominoAssignments ==
    {a \in [DominoIndices -> GridCells(puzzle_data.rows, puzzle_data.cols)] :
        /\ \A i \in DominoIndices :
              Footprint(PlacedAt(i, a[i])) \subseteq GridCells(puzzle_data.rows, puzzle_data.cols)
        /\ \A i, j \in DominoIndices :
              i # j => Footprint(PlacedAt(i, a[i])) \cap Footprint(PlacedAt(j, a[j])) = {}}

\* Some generated hyper-state has exactly the label-to-anchor assignment a.
Generated(a) ==
    \E k \in 1..Len(hyper_states) :
        \A i \in DominoIndices : \E m \in 1..Len(hyper_states[k]) :
            /\ hyper_states[k][m].label = puzzle_data.pieces[i].label
            /\ hyper_states[k][m].row = a[i][1]
            /\ hyper_states[k][m].col = a[i][2]

\* Dominoes of the same orientation take their anchors in row-major order,
\* following the order of the configuration.
InListOrder(a) ==
    \A i, j \in DominoIndices :
        (i < j /\ puzzle_data.pieces[i].piece_type = puzzle_data.pieces[j].piece_type) =>
            \/ a[i][1] < a[j][1]
            \/ a[i][1] = a[j][1] /\ a[i][2] < a[j][2]

\* C10 as stated: every assignment of the domino labels to in-bounds anchors
\* with pairwise disjoint footprints is among the generated hyper-states.
C10_EveryAssignmentGenerated ==
    pc = "hypernodes" => \A a \in DominoAssignments : Generated(a)

\* C10 amended: every such assignment in which same-orientation dominoes take
\* their anchors in row-major order, in configuration order, is generated.
C10_EveryOrderedAssignmentGenerated ==
    pc = "hypernodes" => \A a \in DominoAssignments : InListOrder(a) => Generated(a)

\* Two dominoes of the same orientation with several generated placements.
C10_Witness ==
    /\ pc = "hypernodes"
    /\ Cardinality(DominoIndices) = 2
    /\ \A i, j \in DominoIndices :
          puzzle_data.pieces[i].piece_type = puzzle_data.pieces[j].piece_type
    /\ Len(hyper_states) >= 2
    /\ \E a \in DominoAssignments : InListOrder(a) /\ Generated(a)

----------------------------------------------------------------------------
(* Claims about generate_supernodes of shortestMoves.py.                    *)

\* Cells of the grid covered by no piece.
EmptyCells(pieces, data) ==
    GridCells(data.rows, data.cols) \ UNION {Footprint(pieces[i]) : i \in 1..Len(pieces)}

\* The binomial coefficient C(n, k).
RECURSIVE Binomial(_, _)
Binomial(n, k) ==
    IF k = 0 THEN 1
    ELSE IF n < k THEN 0
    ELSE Binomial(n - 1, k - 1) + Binomial(n - 1, k)

\* The pieces a super-state has after those of the hyper-state.
AddedPieces(super_state) == SubSeq(super_state, Len(hyper_state) + 1, Len(super_state))

BlockCells(super_state) ==
    {<<AddedPieces(super_state)[i].row, AddedPieces(super_state)[i].col>> :
        i \in 1..Len(AddedPieces(super_state))}

\* C11: generate_supernodes returns C(e, 4) super-states for e empty cells,
\* and every 4-element subset of the empty cells is the set of block cells of
\* exactly one of them.
C11_OnePerSubset ==
    pc = "supernodes" =>
        LET empty == EmptyCells(hyper_state, puzzle_data)
        IN /\ Len(super_states) = Binomial(Cardinality(empty), NumBlocks)
           /\ \A S \in {X \in SUBSET empty : Cardinality(X) = NumBlocks} :
                 Cardinality({k \in 1..Len(super_states) :
                                 BlockCells(super_states[k]) = S}) = 1

\* Five empty cells: five super-states, one per subset.
C11_Witness ==
    /\ pc = "supernodes"
    /\ Cardinality(EmptyCells(hyper_state, puzzle_data)) > NumBlocks
    /\ Len(super_states) > 1

\* C12: every super-state is the hyper-state followed by exactly 4 unit
\* blocks, on 4 distinct cells, none of them in the footprint of a piece of
\* the hyper-state.
C12_BlocksOnEmptyCells ==
    pc = "supernodes" =>
        \A k \in 1..Len(super_states) :
            /\ SubSeq(super_states[k], 1, Len(hyper_state)) = hyper_state
            /\ Len(AddedPieces(super_states[k])) = 4
            /\ \A i \in 1..4 :
                  /\ AddedPieces(super_states[k])[i].piece_type = "1x1"
                  /\ AddedPieces(super_states[k])[i].label = BlockLabel(i)
            /\ Cardinality(BlockCells(super_states[k])) = 4
            /\ BlockCells(super_states[k])
                  \cap UNION {Footprint(hyper_state[i]) : i \in 1..Len(hyper_state)} = {}

\* Super-states of a hyper-state that holds a domino.
C12_Witness ==
    /\ pc = "supernodes"
    /\ super_states # <<>>
    /\ \E i \in 1..Len(hyper_state) : hyper_state[i].piece_type \in {"1x2", "2x1"}

\* C13: with fewer than 4 empty cells generate_supernodes returns the empty
\* list (the call returns: it reaches the return statement of line 215).
C13_TooFewEmptyCells ==
    (pc = "supernodes" /\ Cardinality(EmptyCells(hyper_state, puzzle_data)) < 4) =>
        super_states = <<>>

\* The call has returned on a hyper-state without any empty cell.
C13_Witness ==
    /\ pc = "supernodes"
    /\ EmptyCells(hyper_state, puzzle_data) = {}
    /\ super_states = <<>>

----------------------------------------------------------------------------
(* Claims about infeasible and malformed configurations.                    *)

\* Cells of the pieces generate_hypernodes leaves in place.
FixedCells ==
    UNION {Footprint(puzzle_data.pieces[i]) : i \in (1..Len(puzzle_data.pieces)) \ DominoIndices}

\* The dominoes can be put on the grid, in bounds, without overlapping each
\* other or a fixed piece.
Feasible ==
    \E a \in DominoAssignments :
        \A i \in DominoIndices : Footprint(PlacedAt(i, a[i])) \cap FixedCells = {}

\* C14: when the dominoes of the configuration cannot all be placed on the grid
\* without overlap, generate_hypernodes returns the empty list.
C14_InfeasibleIsEmpty ==
    (pc = "hypernodes" /\ ~Feasible) => hyper_states = <<>>

----------------------------------------------------------------------------
(* Claims about board_to_tuple.                                             *)

\* The two lists hold the same pieces, each as often in the one as in the other.
SamePieces(a, b) ==
    /\ Len(a) = Len(b)
    /\ \A x \in Elements(a) \cup Elements(b) :
          Cardinality({i \in 1..Len(a) : a[i] = x}) = Cardinality({i \in 1..Len(b) : b[i] = x})

\* Anchor of the piece labelled l (labels are unique).
AnchorOf(pieces, l) ==
    LET i == CHOOSE k \in 1..Len(pieces) : pieces[k].label = l
    IN <<pieces[i].row, pieces[i].col>>

SameAnchors(a, b) ==
    /\ LabelsOf(a) = LabelsOf(b)
    /\ \A l \in LabelsOf(a) : AnchorOf(a, l) = AnchorOf(b, l)

\* b is a with the anchors of two pieces of the same shape exchanged.
ExchangedPair(a, b) ==
    \E l1, l2 \in LabelsOf(a) :
        /\ l1 # l2
        /\ AnchorOf(a, l1) # AnchorOf(a, l2)
        /\ AnchorOf(b, l1) = AnchorOf(a, l2)
        /\ AnchorOf(b, l2) = AnchorOf(a, l1)
        /\ \A l \in LabelsOf(a) \ {l1, l2} : AnchorOf(b, l) = AnchorOf(a, l)
        /\ \E i, j \in 1..Len(a) :
              a[i].label = l1 /\ a[j].label = l2 /\ a[i].piece_type = a[j].piece_type

\* C15: two orderings of the same list of pieces have the same key (the second
\* one is found in the visited set and not queued).
C15_OrderIndependent ==
    (pc = "visited" /\ SamePieces(initial_pieces, current_pieces)) =>
        /\ board_to_tuple(current_pieces) = board_to_tuple(initial_pieces)
        /\ visited = {board_to_tuple(initial_pieces)}
        /\ Len(queue) = 1

\* Three pieces looked up in another order than they were added in.
C15_Witness ==
    /\ pc = "visited"
    /\ Len(initial_pieces) = 3
    /\ SamePieces(initial_pieces, current_pieces)
    /\ \A i \in 1..3 : current_pieces[i] # initial_pieces[i]
    /\ Len(queue) = 1

\* C16: over the same uniquely labelled pieces two states have equal keys only
\* if every label has the same anchor in both; states that differ, among them
\* those with two same-shaped pieces exchanged, are both kept by visited.
C16_KeyTellsLabelsApart ==
    pc = "visited" =>
        /\ board_to_tuple(current_pieces) = board_to_tuple(initial_pieces)
              => SameAnchors(initial_pieces, current_pieces)
        /\ ~SameAnchors(initial_pieces, current_pieces)
              => /\ Cardinality(visited) = 2
                 /\ Len(queue) = 2

\* Two pieces of the same shape have exchanged their anchors and both states
\* are in visited.
C16_Witness ==
    /\ pc = "visited"
    /\ ExchangedPair(initial_pieces, current_pieces)
    /\ Cardinality(visited) = 2

\* C17: a configuration whose target label is on no piece is refused before
\* any enumeration: main() generates neither hyper-states nor super-states
\* for it.
C17_UnknownTargetHalts ==
    ~HasTarget => pc \notin {"hypernodes", "supernodes"}

\* Number of pieces whose anchor differs from the one in the configuration.
Displaced(pieces) ==
    Cardinality({i \in 1..Len(pieces) :
                    <<pieces[i].row, pieces[i].col>>
                        # <<puzzle_data.pieces[i].row, puzzle_data.pieces[i].col>>})

\* C18: a configuration with a repeated label is not searched: no state of
\* the BFS of simpleShortestMoves.py has more pieces off their initial anchors
\* than moves were made to reach it (a move changes one piece).
C18_OneMoveOnePiece ==
    pc = "loop" =>
        \A k \in 1..Len(queue) : Displaced(queue[k].pieces) <= Len(queue[k].move_history)

----------------------------------------------------------------------------
(* Claims about the move generator of March3/generate_states.py.            *)

\* Piece i of the state just expanded has a free cell of the grid next to it
\* in the direction of MOVES[k] (every piece here is one cell or a domino).
FreeNeighbour(i, k) ==
    LET moved == Footprint(Shifted(current_pieces[i], MOVES[k]))
        others == UNION {Footprint(current_pieces[j]) :
                            j \in (1..Len(current_pieces)) \ {i}}
    IN /\ moved \subseteq GridCells(puzzle_data.rows, puzzle_data.cols)
       /\ moved \cap others = {}

IsDomino(p) == p.piece_type \in {"1x2", "2x1"}

\* C19: in every state the BFS of March3/generate_states.py expands, the move
\* list of every piece that is not a domino is empty, and in every queued
\* state those pieces are where the initial state has them.
C19_FixedPiecesNeverMove ==
    pc = "loop" =>
        /\ \A i \in 1..Len(current_pieces) :
              ~IsDomino(current_pieces[i]) => possible_moves[current_pieces[i].label] = <<>>
        /\ \A k \in 1..Len(queue) : \A i \in 1..Len(initial_pieces) :
              ~IsDomino(initial_pieces[i]) => queue[k].pieces[i] = initial_pieces[i]

\* A domino has moved while a piece that is not a domino, with a free cell
\* next to it, has an empty move list.
C19_Witness ==
    /\ pc = "loop"
    /\ \E k \in 1..Len(queue) : queue[k].move_history # <<>>
    /\ \E i \in 1..Len(current_pieces) : \E k \in 1..Len(MOVES) :
          /\ ~IsDomino(current_pieces[i])
          /\ FreeNeighbour(i, k)
          /\ possible_moves[current_pieces[i].label] = <<>>

\* C20: the unit blocks added by generate_supernodes are movable: when the cell
\* next to a block is in the grid and unoccupied, the move generator lists
\* that move for the block.
C20_BlocksMovable ==
    (pc = "loop" /\ current_pieces # <<>>) =>
        \A i \in 1..Len(current_pieces) : \A k \in 1..Len(MOVES) :
            (/\ current_pieces[i].label \in {BlockLabel(idx) : idx \in 1..NumBlocks}
             /\ FreeNeighbour(i, k))
            => \E m \in 1..Len(possible_moves[current_pieces[i].label]) :
                  possible_moves[current_pieces[i].label][m]
                     = <<MOVES[k].direction, current_pieces[i].row + MOVES[k].dr,
                         current_pieces[i].col + MOVES[k].dc>>

----------------------------------------------------------------------------
(* Claims about the frontier and the visited set of simpleShortestMoves.py. *)

\* The entries an expansion step has appended to the queue.
Enqueued == SubSeq(queue', Len(queue), Len(queue'))

\* C24: in the BFS loop the key of the initial state and of every state of the
\* frontier is in visited, and every step enqueues only keys that were not in
\* visited, each once, and adds them to visited.
C24_FrontierIsVisited ==
    /\ [](pc = "loop" =>
            /\ board_to_tuple(puzzle_data.pieces) \in visited
            /\ \A k \in 1..Len(queue) : board_to_tuple(queue[k].pieces) \in visited)
    /\ [][(pc = "loop" /\ pc' = "loop") =>
            /\ \A k \in 1..Len(Enqueued) :
                  /\ board_to_tuple(Enqueued[k].pieces) \notin visited
                  /\ board_to_tuple(Enqueued[k].pieces) \in visited'
                  /\ \A m \in 1..Len(Enqueued) :
                        m # k => board_to_tuple(Enqueued[m].pieces)
                                    # board_to_tuple(Enqueued[k].pieces)
            /\ Cardinality(visited') = Cardinality(visited) + Len(Enqueued)]_vars

\* An expansion that found some successors new and others already visited.
C24_Witness ==
    /\ pc = "loop"
    /\ Len(queue) >= 2
    /\ Cardinality(visited) >= 4
    /\ \E k \in 1..Len(MoveList(current_pieces, possible_moves, 1)) :
          LET c == MoveList(current_pieces, possible_moves, 1)[k]
          IN \A m \in 1..Len(queue) :
                queue[m].pieces # MovePiece(current_pieces, c.label, c.move[2], c.move[3])

\* Length of a shortest legal move sequence from a state of `frontier` (all at
\* distance k from the start) to the state s; -1 when s is not reachable.
RECURSIVE DistanceTo(_, _, _, _)
DistanceTo(frontier, seen, s, k) ==
    IF s \in frontier THEN k
    ELSE IF frontier = {} THEN -1
    ELSE LET next == UNION {LegalSuccessors(f, puzzle_data.rows, puzzle_data.cols) : f \in frontier}
                        \ seen
         IN DistanceTo(next, seen \cup next, s, k + 1)

\* C25: the history of every dequeued entry is as long as a shortest legal
\* move sequence from the initial state to the entry's state, and the lengths
\* of the dequeued histories never decrease.
C25_DequeuedInDistanceOrder ==
    /\ [](current_pieces # <<>> =>
            Len(move_history)
               = DistanceTo({puzzle_data.pieces}, {puzzle_data.pieces}, current_pieces, 0))
    /\ [][Len(move_history') >= Len(move_history)]_vars

\* A state at distance 3 is dequeued while states at distance 4 are queued.
C25_Witness ==
    /\ pc = "loop"
    /\ Len(move_history) = 3
    /\ \E k \in 1..Len(queue) : Len(queue[k].move_history) = 4

\* child is parent with one piece shifted by one cell along a cardinal
\* direction and every other piece as it was.
OneCellApart(parent, child) ==
    /\ Len(child) = Len(parent)
    /\ \E i \in 1..Len(parent) : \E k \in 1..Len(MOVES) :
          /\ child[i] = Shifted(parent[i], MOVES[k])
          /\ \A j \in 1..Len(parent) : j # i => child[j] = parent[j]

\* C27: with unique labels every successor the BFS enqueues is its parent with
\* the anchor of exactly one piece changed by one cell in a cardinal direction.
C27_SuccessorOneCellApart ==
    [][(pc = "loop" /\ pc' = "loop" /\ queue # <<>>) =>
          \A k \in 1..Len(Enqueued) :
             OneCellApart(Head(queue).pieces, Enqueued[k].pieces)]_vars

\* The frontier holds a successor of the state just expanded, a state of two
\* pieces or more.
C27_Witness ==
    /\ pc = "loop"
    /\ Len(current_pieces) >= 2
    /\ \E k \in 1..Len(queue) :
          /\ Len(queue[k].move_history) = Len(move_history) + 1
          /\ SubSeq(queue[k].move_history, 1, Len(move_history)) = move_history
          /\ OneCellApart(current_pieces, queue[k].pieces)

----------------------------------------------------------------------------
(* Claims about the list generate_hypernodes returns.                        *)

\* C28: no two hyper-states of the list returned by generate_hypernodes have
\* the same canonical key.
C28_HyperKeysDistinct ==
    pc \in {"hypernodes", "supernodes"} =>
        \A i, j \in 1..Len(hyper_states) :
            i # j => board_to_tuple(hyper_states[i]) # board_to_tuple(hyper_states[j])

\* Two dominoes of one shape were placed, in four arrangements or more.
C28_Witness ==
    /\ pc = "hypernodes"
    /\ Len(hyper_states) >= 4
    /\ \E i, j \in 1..Len(puzzle_data.pieces) :
          /\ i # j
          /\ puzzle_data.pieces[i].piece_type = puzzle_data.pieces[j].piece_type
          /\ puzzle_data.pieces[i].piece_type \in {"1x2", "2x1"}

----------------------------------------------------------------------------
(* Claims about the searches of potentialMoves.py.                           *)

\* The states reachable from the states of `seen` by legal moves; `frontier`
\* holds the states of `seen` not yet expanded.
RECURSIVE ReachableStates(_, _)
ReachableStates(frontier, seen) ==
    IF frontier = {} THEN seen
    ELSE LET next == UNION {LegalSuccessors(f, puzzle_data.rows, puzzle_data.cols) : f \in frontier}
                        \ seen
         IN ReachableStates(next, seen \cup next)

ReachableFromInitial == ReachableStates({puzzle_data.pieces}, {puzzle_data.pieces})

\* C29: BFS returns the number of distinct canonical keys of the states
\* reachable from the initial state by legal moves, the initial state included.
C29_CountsReachableStates ==
    pc = "return_total" =>
        ret = Cardinality({board_to_tuple(s) : s \in ReachableFromInitial})

\* A count of six states or more, over two pieces.
C29_Witness ==
    /\ pc = "return_total"
    /\ ret >= 6
    /\ Len(puzzle_data.pieces) = 2

\* C30: every state reachable from the initial state by legal moves in which
\* the target is anchored at (rows - 1, 0) is in the list
\* find_target_piece_paths returns.
C30_AllEndStatesListed ==
    (pc = "return_valid_end_states" /\ HasTarget) =>
        \A s \in ReachableFromInitial :
            (TargetOf(s).row = puzzle_data.rows - 1 /\ TargetOf(s).col = 0) =>
                \E k \in 1..Len(ret) : board_to_tuple(ret[k].pieces) = board_to_tuple(s)

----------------------------------------------------------------------------
(* Claims about the replay of a returned path.                               *)

\* C26: the states simulate_shortest_path_and_save_images passes through when
\* it replays the returned path from the configured pieces all satisfy the
\* BoardState invariant, and the last one satisfies the goal predicate.
C26_ReplayValidToGoal ==
    pc = "simulated" =>
        /\ Len(image_states) = Len(ret) + 1
        /\ \A k \in 1..Len(image_states) :
              BoardInvariant(image_states[k], puzzle_data.rows, puzzle_data.cols)
        /\ AtGoal(image_states[Len(image_states)])

\* A replay of four moves or more in which two different pieces move.
C26_Witness ==
    /\ pc = "simulated"
    /\ Len(ret) >= 4
    /\ \E i, j \in 1..Len(ret) : ret[i][1] # ret[j][1]

----------------------------------------------------------------------------
(* Claims about the piece dicts find_shortest_target_path works on.          *)

\* The dicts of the caller's list and of the lists in the frontier.
HeldIds ==
    (IF pc = "main" THEN {} ELSE 1..Len(puzzle_data.pieces))
    \cup UNION {Elements(queue[k].pieces) : k \in 1..Len(queue)}

\* C22: no step of find_shortest_target_path changes the label, row or col of a
\* dict of the caller's initial state or of a state in the frontier, and the
\* states an expansion enqueues are lists of new dicts.
C22_HeldStatesUnmodified ==
    [][/\ \A id \in HeldIds :
             /\ id \in DOMAIN heap'
             /\ heap'[id].label = heap[id].label
             /\ heap'[id].row = heap[id].row
             /\ heap'[id].col = heap[id].col
       /\ (pc = "loop" /\ pc' = "loop") =>
             \A k \in 1..Len(Enqueued) :
                Elements(Enqueued[k].pieces) \cap DOMAIN heap = {}]_vars

\* The caller's dicts have received height and width, and states of copies
\* have been enqueued, while the first dict still holds the configured anchor.
C22_Witness ==
    /\ pc = "loop"
    /\ Len(puzzle_data.pieces) >= 2
    /\ Len(heap) >= 3 * Len(puzzle_data.pieces)
    /\ heap[1].height > 0
    /\ heap[1].row = puzzle_data.pieces[1].row
    /\ heap[1].col = puzzle_data.pieces[1].col
    /\ \E id \in DOMAIN heap : heap[id].label = heap[1].label /\ heap[id].row # heap[1].row

----------------------------------------------------------------------------
(* Claims about graph/heatmap.py.                                            *)

\* C23: on the 3x4 configuration the run gets to the super-states of the
\* hyper-states (none of its steps raises) and every path a search returns has
\* at least as many moves as the Manhattan distance of T to the cell (2, 0).
C23_ScenarioYieldsPaths ==
    puzzle_data = HmScenario =>
        /\ pc # "raise_KeyError"
        /\ pc = "return_path" =>
              Len(ret) >= Manhattan(TargetOf(HmScenario.pieces), HmScenario.rows - 1, 0)

----------------------------------------------------------------------------
(* Claims about the goal tests.                                              *)

\* C31: on an in-bounds target piece of shape 1x1, 1x2 or 2x1 the goal tests of
\* graph/heatmap.py, shortestMoves.py, simpleShortestMoves.py and
\* graph/getToEnd.py give the same answer.
C31_GoalTestsAgree ==
    pc = "goal_tested" =>
        /\ result.heatmap = result.shortestMoves
        /\ result.heatmap = result.simpleShortestMoves
        /\ result.heatmap = result.getToEnd

----------------------------------------------------------------------------
(* Claims about the adjacency tests of the hyper-node graphs.                *)

\* The placement q is the placement p translated by one cell in a cardinal
\* direction.
ShiftedPlacement(p, q) ==
    \E k \in 1..Len(MOVES) :
        q = {<<c[1] + MOVES[k].dr, c[2] + MOVES[k].dc>> : c \in p}

\* b is a with one placement translated by one cell, every other placement in
\* place.
OneMoveApart(a, b) ==
    \E p \in a : \E q \in b :
        /\ a \ {p} = b \ {q}
        /\ ShiftedPlacement(p, q)

\* C32: is_one_move_away is true exactly when one piece has been translated by
\* a single cell in a cardinal direction and all other pieces are in place.
C32_OneMoveAwayExact ==
    pc = "compared" => (result <=> OneMoveApart(args.state_a, args.state_b))

\* The tokens of the pieces of a hyper-node, with their numbers.
TokenCounts(state) ==
    [t \in HnTokens |-> Cardinality({i \in 1..Len(state.pieces) : state.pieces[i].token = t})]

\* The pieces of a hyper-node as (token, set of cells) pairs.
TokenPieces(state) ==
    {<<state.pieces[i].token, Elements(state.pieces[i].cells)>> : i \in 1..Len(state.pieces)}

\* All pieces but one agree in token and cells, and the remaining piece of b is
\* the remaining piece of a shifted by the offset d.
OneTokenMoveApart(a, b, d) ==
    \E p \in TokenPieces(a) : \E q \in TokenPieces(b) :
        /\ TokenPieces(a) \ {p} = TokenPieces(b) \ {q}
        /\ q[2] = {<<c[1] + d[1], c[2] + d[2]>> : c \in p[2]}

CardinalOffsets == {<<MOVES[k].dr, MOVES[k].dc>> : k \in 1..Len(MOVES)}

\* C33: for hyper-nodes with the same multiset of tokens get_move_info returns
\* a move exactly when all pieces but one agree and the remaining piece is
\* shifted by one cell in a cardinal direction (the offset returned), and
\* get_move_info(b, a) then returns the opposite offset.
C33_MoveInfoExactAndSymmetric ==
    (pc = "move_info" /\ TokenCounts(args.state_a) = TokenCounts(args.state_b)) =>
        LET back == get_move_info(args.state_b, args.state_a)
        IN /\ (result # <<>>) <=>
                 (\E d \in CardinalOffsets : OneTokenMoveApart(args.state_a, args.state_b, d))
           /\ result # <<>> =>
                 /\ OneTokenMoveApart(args.state_a, args.state_b, result[1].offset)
                 /\ back # <<>>
                 /\ back[1].offset = <<0 - result[1].offset[1], 0 - result[1].offset[2]>>
           /\ result = <<>> => back = <<>>

C33_Witness ==
    /\ pc = "move_info"
    /\ TokenCounts(args.state_a) = TokenCounts(args.state_b)
    /\ Len(args.state_a.pieces) = 2
    /\ result # <<>>

----------------------------------------------------------------------------
(* Claims about the reachability test of the super-nodes.                    *)

\* The board of a super-node: the pieces of the puzzle and a 1x1 block on
\* every cell of the super-node.
FullBoard(a) ==
    a.puzzle_data.pieces \o
    [k \in 1..NumBlocks |-> [label |-> PieceLabels[5], piece_type |-> "1x1",
                             row |-> RowMajor(a.super_state)[k][1],
                             col |-> RowMajor(a.super_state)[k][2]]]

\* The dominoes of the puzzle lie on the placements of the hyper-node, and the
\* pieces and the blocks form a board.
FullBoardDefined(a) ==
    /\ a.hyper_state = {Footprint(a.puzzle_data.pieces[i]) :
                           i \in {j \in 1..Len(a.puzzle_data.pieces) :
                                    a.puzzle_data.pieces[j].piece_type # "1x1"}}
    /\ BoardInvariant(FullBoard(a), a.puzzle_data.rows, a.puzzle_data.cols)

\* Some state reachable from `frontier' by legal sliding moves has the piece at
\* index t anchored at (rows - 1, 0).
RECURSIVE SlidingReachesGoal(_, _, _, _, _)
SlidingReachesGoal(frontier, seen, t, rows, cols) ==
    IF \E s \in frontier : s[t].row = rows - 1 /\ s[t].col = 0 THEN TRUE
    ELSE IF frontier = {} THEN FALSE
    ELSE LET next == UNION {LegalSuccessors(s, rows, cols) : s \in frontier} \ seen
         IN SlidingReachesGoal(next, seen \cup next, t, rows, cols)

\* C34: can_reach_solution is True exactly when a search over the legal sliding
\* moves of the full board of the super-node reaches a state with the target
\* at (rows - 1, 0).
C34_CanReachIsSlidingSearch ==
    (pc = "can_reach" /\ args.puzzle_data.target = PieceLabels[1] /\ FullBoardDefined(args)) =>
        (result <=> SlidingReachesGoal({FullBoard(args)}, {FullBoard(args)}, 1,
                                       args.puzzle_data.rows, args.puzzle_data.cols))

----------------------------------------------------------------------------
(* Claims about the enumeration of hyperNodeCalc.py.                         *)

\* The cells of the board of hyperNodeCalc.py.
BoardCells == GridCells(board_rows, board_cols)

\* The labelled triples of in-bounds placements with pairwise disjoint cells.
LabelledTriples ==
    LET H == {<<c, <<c[1], c[2] + 1>>>> : c \in {x \in BoardCells : <<x[1], x[2] + 1>> \in BoardCells}}
        V == {<<c, <<c[1] + 1, c[2]>>>> : c \in {x \in BoardCells : <<x[1] + 1, x[2]>> \in BoardCells}}
    IN {t \in [H1 : H, H2 : H, V : V] :
          /\ Elements(t.H1) \cap Elements(t.H2) = {}
          /\ Elements(t.H1) \cap Elements(t.V) = {}
          /\ Elements(t.H2) \cap Elements(t.V) = {}}

\* A triple with the names of its horizontal dominoes forgotten.
Forget(t) == {Elements(t.H1), Elements(t.H2), Elements(t.V)}

\* The puzzle of two 1x2 pieces and one 2x1 piece on the board of
\* hyperNodeCalc.py.
TwoHOneV ==
    [rows |-> board_rows, cols |-> board_cols, target |-> PieceLabels[1],
     pieces |-> <<[label |-> PieceLabels[1], piece_type |-> "1x2", row |-> 0, col |-> 0],
                  [label |-> PieceLabels[2], piece_type |-> "1x2", row |-> 1, col |-> 0],
                  [label |-> PieceLabels[3], piece_type |-> "2x1", row |-> 0, col |-> 2]>>]

\* C35: enumerate_placements returns every labelled triple (H1, H2, V) of
\* in-bounds, pairwise disjoint placements exactly once, and forgetting the
\* names H1 and H2 maps the triples two to one onto the arrangements of
\* getToEnd.count_valid_arrangements for two 1x2 pieces and one 2x1 piece.
C35_EnumeratesLabelledTriples ==
    pc = "return_possibilities" =>
        /\ \A m, n \in 1..Len(result) : m # n => result[m] # result[n]
        /\ Elements(result) = LabelledTriples
        /\ {Forget(result[n]) : n \in 1..Len(result)} = gte_count_valid_arrangements(TwoHOneV)
        /\ \A a \in gte_count_valid_arrangements(TwoHOneV) :
              Cardinality({n \in 1..Len(result) : Forget(result[n]) = a}) = 2

C35_Witness ==
    /\ pc = "return_possibilities"
    /\ Len(result) = 200

----------------------------------------------------------------------------
(* Claims about PuzzleBoard of earlyWorkings/board.py.                       *)

\* C36: after any sequence of moves self.empties is exactly the set of cells
\* no piece covers, as find_empties computes it, and the pieces are inside the
\* grid and pairwise disjoint.
C36_EmptiesAreUncoveredCells ==
    pc = "mainloop" =>
        /\ puzzle_board.empties =
              {rc \in GridCells(puzzle_board.rows, puzzle_board.cols) :
                  \A i \in 1..Len(puzzle_board.pieces) : rc \notin bd_cells(puzzle_board.pieces[i])}
        /\ puzzle_board.empties =
              bd_find_empties(puzzle_board.rows, puzzle_board.cols, puzzle_board.pieces)
        /\ \A i \in 1..Len(puzzle_board.pieces) :
              bd_cells(puzzle_board.pieces[i]) \subseteq GridCells(puzzle_board.rows, puzzle_board.cols)
        /\ \A i, j \in 1..Len(puzzle_board.pieces) :
              i # j => bd_cells(puzzle_board.pieces[i]) \cap bd_cells(puzzle_board.pieces[j]) = {}

\* Two pieces on the board after three moves.
C36_Witness ==
    /\ pc = "mainloop"
    /\ puzzle_board.move_count = MaxMoveCount
    /\ Len(puzzle_board.pieces) = 2
    /\ puzzle_board.pieces[2].width = 2

\* The call move_piece(piece_id, direction) cannot move a piece of b: the id
\* is unknown, the shape is not one of the three supported ones, or the piece
\* shifted by one cell leaves the grid or meets another piece.
BdImpossible(b, piece_id, direction) ==
    LET k == bd_index(b.pieces, piece_id)
    IN \/ k = 0
       \/ /\ k # 0
          /\ \/ <<b.pieces[k].width, b.pieces[k].height>> \notin {<<1, 1>>, <<2, 1>>, <<1, 2>>}
             \/ ~(bd_cells(bd_moved(b.pieces[k], direction)) \subseteq GridCells(b.rows, b.cols))
             \/ \E j \in 1..Len(b.pieces) :
                   j # k /\ bd_cells(bd_moved(b.pieces[k], direction)) \cap bd_cells(b.pieces[j]) # {}

\* The piece a key press acts on, and its direction.
BdKeyPiece == IF puzzle_board.selected_piece_id = <<>> THEN puzzle_board.target_piece_id
              ELSE puzzle_board.selected_piece_id[1]

BdKeyDirection(keysym) ==
    CASE keysym = "Up" -> "up" [] keysym = "Down" -> "down"
      [] keysym = "Left" -> "left" [] keysym = "Right" -> "right"

\* Every impossible call of move_piece on the board returns False and changes
\* nothing.
BdImpossibleCallsRefused ==
    pc = "mainloop" =>
        \A piece_id \in {PieceLabels[n] : n \in 1..MaxPieces} \cup {MissingLabel} :
        \A direction \in {"up", "down", "left", "right"} :
            BdImpossible(puzzle_board, piece_id, direction) =>
                bd_move_piece(puzzle_board, piece_id, direction) = [board |-> puzzle_board, ret |-> FALSE]

\* A key press with an impossible move leaves positions, empties and
\* move_count as they are; one with a possible move adds one to move_count;
\* nothing else changes move_count.
BdMoveCountStep ==
    pc = "mainloop" =>
        IF args'.handler = "on_key_press"
        THEN IF BdImpossible(puzzle_board, BdKeyPiece, BdKeyDirection(args'.keysym))
             THEN /\ result' = FALSE
                  /\ puzzle_board'.pieces = puzzle_board.pieces
                  /\ puzzle_board'.empties = puzzle_board.empties
                  /\ puzzle_board'.move_count = puzzle_board.move_count
             ELSE /\ result' = TRUE
                  /\ puzzle_board'.pieces # puzzle_board.pieces
                  /\ puzzle_board'.move_count = puzzle_board.move_count + 1
        ELSE puzzle_board'.move_count = puzzle_board.move_count

\* C37: an impossible move_piece call (unknown id, blocked or out-of-grid
\* move, unsupported shape) returns False and leaves positions, empties and
\* move_count unchanged; move_count increases by exactly 1 per successful move
\* and never otherwise.
C37_ImpossibleMovesChangeNothing ==
    []BdImpossibleCallsRefused /\ [][BdMoveCountStep]_vars

\* A refused key press after a successful move.
C37_Witness ==
    /\ pc = "mainloop"
    /\ puzzle_board.move_count = 1
    /\ args.handler = "on_key_press"
    /\ result = FALSE
    /\ Len(puzzle_board.pieces) = 2

----------------------------------------------------------------------------
(* Claims about PuzzleApp of workingBoard/combined.py.                       *)

\* C38: after reset_puzzle every piece is at the position the most recent
\* lock_board recorded for it, and move_count is 0.
C38_ResetRestoresLockedPositions ==
    (pc = "app_mainloop" /\ args.handler = "reset_puzzle") =>
        /\ puzzle_app.move_count = 0
        /\ \A i \in 1..Len(puzzle_app.pieces) :
              /\ puzzle_app.pieces[i].label \in DOMAIN puzzle_app.initial_positions
              /\ <<puzzle_app.pieces[i].row, puzzle_app.pieces[i].col>> =
                    puzzle_app.initial_positions[puzzle_app.pieces[i].label]

\* C39: the configuration save_configuration writes has all pieces inside
\* rows x cols and pairwise non-overlapping.
C39_SavedConfigurationValid ==
    (pc = "app_mainloop" /\ args.handler = "save_configuration") =>
        BoardInvariant(result.pieces, result.rows, result.cols)

\* No update_timer callback is pending after back_to_menu.
AppNoTimerAfterMenu ==
    (pc = "app_mainloop" /\ args.handler = "back_to_menu") => tk_after.pending = {}

\* C40: at most one update_timer callback is pending at any time, and none
\* after back_to_menu.
C40_AtMostOneTimerPending ==
    pc = "app_mainloop" =>
        /\ Cardinality(tk_after.pending) <= 1
        /\ AppNoTimerAfterMenu

====
